---- MODULE Spec2Model ----
(***************************************************************************)
(* Response reconciliation engine of the Calhacks backend (src/app.py):    *)
(* submission to the Letta agent, the completion poll loop, the heuristic  *)
(* extraction of an analysis payload, its validation against the pydantic  *)
(* models, and the single-slot store of the latest validated result.       *)
(*                                                                         *)
(* JSON values are tagged records, so that a value of any type can sit in  *)
(* any position of a document, as in the Python code:                      *)
(*   [t |-> "null"]  [t |-> "bool", b]  [t |-> "num", n]  [t |-> "str", s] *)
(*   [t |-> "list", items]   a sequence of values                          *)
(*   [t |-> "dict", kv]      a sequence of <<key, value>> in key order     *)
(* Python's None and JSON null are the same value, Null.  Numbers are held *)
(* in tenths (a confidence of 0.7 is Num(7)), TLA+ having no floats.       *)
(***************************************************************************)
EXTENDS Integers, Sequences, FiniteSets, TLC

Null == [t |-> "null"]
Bool(b) == [t |-> "bool", b |-> b]
Num(n) == [t |-> "num", n |-> n]
Str(s) == [t |-> "str", s |-> s]
List(items) == [t |-> "list", items |-> items]
Dict(kv) == [t |-> "dict", kv |-> kv]

IsNone(v) == v.t = "null"
IsStr(v) == v.t = "str"
IsDict(v) == v.t = "dict"
IsList(v) == v.t = "list"

Keys(d) == {d.kv[i][1] : i \in DOMAIN d.kv}

\* dict.get(k): the value under k, None when the key is absent
Get(d, k) ==
    IF \E i \in DOMAIN d.kv : d.kv[i][1] = k
    THEN d.kv[CHOOSE i \in DOMAIN d.kv : d.kv[i][1] = k][2]
    ELSE Null

\* d with the value under k replaced, when d has the key
Update(d, k, v) ==
    Dict([i \in DOMAIN d.kv |-> IF d.kv[i][1] = k THEN <<k, v>> ELSE d.kv[i]])

\* Python truth value of a JSON value
Truthy(v) ==
    CASE v.t = "null" -> FALSE
      [] v.t = "bool" -> v.b
      [] v.t = "num"  -> v.n # 0
      [] v.t = "str"  -> v.s # ""
      [] v.t = "list" -> v.items # <<>>
      [] v.t = "dict" -> v.kv # <<>>

\* Python's  a or b
Or(a, b) == IF Truthy(a) THEN a ELSE b

Reverse(s) == [i \in 1..Len(s) |-> s[Len(s) + 1 - i]]

(***************************************************************************)
(* Strings.  TLA+ strings have no character operators, so what str.lower,  *)
(* str.strip, the substring test and json.loads do is tabulated for the    *)
(* strings that occur in the modelled documents; on every other string     *)
(* lower and strip change nothing and json.loads fails.                    *)
(***************************************************************************)
LowerTable ==
    [s \in {"COMPLETED", "Finished", "FAILED", "Error", "Running", "Assistant"} |->
        CASE s = "COMPLETED" -> "completed"
          [] s = "Finished"  -> "finished"
          [] s = "FAILED"    -> "failed"
          [] s = "Error"     -> "error"
          [] s = "Running"   -> "running"
          [] s = "Assistant" -> "assistant"]

Lower(s) == IF s \in DOMAIN LowerTable THEN LowerTable[s] ELSE s

StripTable ==
    [s \in {"   ", " ok "} |-> CASE s = "   " -> "" [] s = " ok " -> "ok"]

Strip(s) == IF s \in DOMAIN StripTable THEN StripTable[s] ELSE s

\* word in s, for the words the message-type test looks for
ContainsTable ==
    [s \in {"assistant_message", "assistant", "final_answer", "tool_output"} |->
        CASE s = "assistant_message" -> {"assistant"}
          [] s = "assistant"         -> {"assistant"}
          [] s = "final_answer"      -> {"final"}
          [] s = "tool_output"       -> {"output"}]

Contains(s, word) == s \in DOMAIN ContainsTable /\ word \in ContainsTable[s]

\* str(v): a string is itself; the text of any other value is opaque here
PyStr(v) == IF IsStr(v) THEN v.s ELSE "<repr>"


(***************************************************************************)
(* Building blocks of the modelled documents.                              *)
(***************************************************************************)
Text(s) == Dict(<< <<"text", Str(s)>> >>)

Node(id) ==
    Dict(<< <<"id", Str(id)>>, <<"label", Str(id)>>, <<"type", Str("protein")>> >>)

Edge(src, tgt) ==
    Dict(<< <<"source", Str(src)>>, <<"target", Str(tgt)>>,
            <<"interaction", Str("binds")>> >>)

Graph(nodes, edges) ==
    Dict(<< <<"nodes", List(nodes)>>, <<"edges", List(edges)>> >>)

Protein(id) == Dict(<< <<"id", Str(id)>>, <<"label", Str("CFTR")>> >>)

Payload(summary, protein, graph) ==
    Dict(<< <<"analysis_summary", summary>>, <<"edited_protein", protein>>,
            <<"graph", graph>> >>)

\* the analysis whose JSON text is PayloadAText
PayloadA == Payload(Text("S"), Protein("P1"), Graph(<<>>, <<>>))

PayloadAText ==
    "{\"analysis_summary\":{\"text\":\"S\"},\"edited_protein\":{\"id\":\"P1\",\"label\":\"CFTR\"},\"graph\":{\"nodes\":[],\"edges\":[]}}"

\* json.loads on the texts of the modelled documents; any other text raises
JsonTexts == {"{}", "[]", "null", "7", PayloadAText}

JsonLoadsTable ==
    [s \in JsonTexts |->
        CASE s = "{}"   -> Dict(<<>>)
          [] s = "[]"   -> List(<<>>)
          [] s = "null" -> Null
          [] s = "7"    -> Num(70)
          [] s = PayloadAText -> PayloadA]

\* [ok |-> FALSE] stands for the exception json.loads raises
JsonLoads(s) ==
    IF s \in JsonTexts THEN [ok |-> TRUE, v |-> JsonLoadsTable[s]]
    ELSE [ok |-> FALSE, v |-> Null]

(***************************************************************************)
(* _find_analysis_like_dict: depth-first search for a dict of the analysis *)
(* shape.                                                                  *)
(***************************************************************************)
_has_text_payload(val) ==
    CASE IsStr(val)  -> TRUE
      [] IsDict(val) -> IsStr(Get(val, "text")) /\ Strip(Get(val, "text").s) # ""
      [] OTHER       -> FALSE

\* the condition of the if at lines 267-273
AnalysisShaped(obj) ==
    /\ IsDict(obj)
    /\ IsDict(Get(obj, "graph"))
    /\ IsList(Get(Get(obj, "graph"), "nodes"))
    /\ IsList(Get(Get(obj, "graph"), "edges"))
    /\ _has_text_payload(Get(obj, "analysis_summary"))
    /\ IsDict(Get(obj, "edited_protein"))

RECURSIVE _find_in_dicts_only(_), FindInValues(_, _)

FindInValues(vals, i) ==
    IF i > Len(vals) THEN Null
    ELSE LET found == _find_in_dicts_only(vals[i])
         IN  IF Truthy(found) THEN found ELSE FindInValues(vals, i + 1)

\* a search that goes through the values of dicts and never into a list
_find_in_dicts_only(obj) ==
    IF ~IsDict(obj) THEN Null
    ELSE IF AnalysisShaped(obj) THEN obj
    ELSE FindInValues([i \in 1..Len(obj.kv) |-> obj.kv[i][2]], 1)

RECURSIVE _find_analysis_like_dict(_), FindInSeq(_, _)

\* the two for loops: the first truthy result among the values, in order
FindInSeq(vals, i) ==
    IF i > Len(vals) THEN Null
    ELSE LET found == _find_analysis_like_dict(vals[i])
         IN  IF Truthy(found) THEN found ELSE FindInSeq(vals, i + 1)

_find_analysis_like_dict(obj) ==
    CASE IsDict(obj) ->
            IF AnalysisShaped(obj) THEN obj
            ELSE FindInSeq([i \in 1..Len(obj.kv) |-> obj.kv[i][2]], 1)
      [] IsList(obj) -> FindInSeq(obj.items, 1)
      [] OTHER -> Null

(***************************************************************************)
(* _extract_json_from_messages.  Each part of the walk yields              *)
(* [ret |-> TRUE, v |-> x] when the code executes  return x  there (x may  *)
(* be None: json.loads("null")), and NoReturn when control falls through.  *)
(***************************************************************************)
NoReturn == [ret |-> FALSE, v |-> Null]
Return(x) == [ret |-> TRUE, v |-> x]

\* a then b: b is evaluated only when a did not return
Then(a, b) == IF a.ret THEN a ELSE b

\* lines 311-319 if a string that does not parse ended the walk
BlockJsonKeyAborting(block, key) ==
    LET val == Get(block, key)
    IN  CASE IsDict(val) -> Return(val)
          [] IsStr(val)  ->
                IF JsonLoads(val.s).ok THEN Return(JsonLoads(val.s).v) ELSE Return(Null)
          [] OTHER -> NoReturn

\* lines 311-319, for one of the keys json, json_object
BlockJsonKey(block, key) ==
    LET val == Get(block, key)
    IN  CASE IsDict(val) -> Return(val)
          [] IsStr(val)  ->
                IF JsonLoads(val.s).ok THEN Return(JsonLoads(val.s).v) ELSE NoReturn
          [] OTHER -> NoReturn

\* lines 321-327
BlockMime(block) ==
    LET mime == Get(block, "mime_type")
        txt  == Or(Or(Get(block, "text"), Get(block, "value")), Get(block, "content"))
    IN  IF IsStr(mime) /\ mime.s \in {"application/json", "text/json"}
           /\ IsStr(txt) /\ JsonLoads(txt.s).ok
        THEN Return(JsonLoads(txt.s).v)
        ELSE NoReturn

\* lines 331-343 and 348-360: a dict is searched, a string is parsed and
\* searched when it parses to a dict
NestedKey(holder, key) ==
    LET v == Get(holder, key)
        found == CASE IsDict(v) -> _find_analysis_like_dict(v)
                   [] IsStr(v) /\ JsonLoads(v.s).ok /\ IsDict(JsonLoads(v.s).v) ->
                         _find_analysis_like_dict(JsonLoads(v.s).v)
                   [] OTHER -> Null
    IN  IF Truthy(found) THEN Return(found) ELSE NoReturn

\* lines 308-343
WalkBlock(block) ==
    IF ~IsDict(block) THEN NoReturn
    ELSE Then(BlockJsonKey(block, "json"),
         Then(BlockJsonKey(block, "json_object"),
         Then(BlockMime(block),
         Then(NestedKey(block, "data"),
         Then(NestedKey(block, "value"),
              NestedKey(block, "content"))))))

RECURSIVE WalkBlocks(_, _)
WalkBlocks(blocks, i) ==
    IF i > Len(blocks) THEN NoReturn
    ELSE Then(WalkBlock(blocks[i]), WalkBlocks(blocks, i + 1))

\* lines 345-360
WalkContentDict(content) ==
    Then(NestedKey(content, "json"),
    Then(NestedKey(content, "json_object"),
    Then(NestedKey(content, "data"),
    Then(NestedKey(content, "value"),
         NestedKey(content, "content")))))

\* lines 362-368
WalkContentStr(content) ==
    IF JsonLoads(content.s).ok /\ IsDict(JsonLoads(content.s).v)
    THEN Return(JsonLoads(content.s).v)
    ELSE NoReturn

\* the test of line 303
Qualifies(msg) ==
    LET mtype == Lower(PyStr(Or(Get(msg, "message_type"), Str(""))))
        role  == Lower(PyStr(Or(Or(Or(Get(msg, "role"), Get(msg, "speaker")),
                                   Get(msg, "author")), Str(""))))
    IN  \/ /\ mtype # ""
           /\ \/ Contains(mtype, "assistant")
              \/ Contains(mtype, "final")
              \/ Contains(mtype, "output")
        \/ role \in {"assistant", "agent", "model"}

\* the body of the for loop over the messages, lines 299-368
WalkMessage(msg) ==
    IF ~IsDict(msg) THEN NoReturn
    ELSE IF ~Qualifies(msg) THEN NoReturn
    ELSE LET content == Get(msg, "content")
         IN  CASE IsList(content) -> WalkBlocks(content.items, 1)
               [] IsDict(content) -> WalkContentDict(content)
               [] IsStr(content)  -> WalkContentStr(content)
               [] OTHER -> NoReturn

RECURSIVE WalkMessages(_, _)
WalkMessages(msgs, i) ==
    IF i > Len(msgs) THEN NoReturn
    ELSE Then(WalkMessage(msgs[i]), WalkMessages(msgs, i + 1))

\* the walk if it scanned the messages from the oldest to the newest
_extract_oldest_first(resp_json) ==
    IF ~IsDict(resp_json) THEN Null
    ELSE IF ~IsList(Get(resp_json, "messages")) THEN Null
    ELSE LET walk == WalkMessages(Get(resp_json, "messages").items, 1)
         IN  IF walk.ret THEN walk.v ELSE _find_analysis_like_dict(resp_json)

_extract_json_from_messages(resp_json) ==
    IF ~IsDict(resp_json) THEN Null
    ELSE IF ~IsList(Get(resp_json, "messages")) THEN Null
    ELSE LET walk == WalkMessages(Reverse(Get(resp_json, "messages").items), 1)
         IN  IF walk.ret THEN walk.v ELSE _find_analysis_like_dict(resp_json)

\* the extraction without the second search of lines 659-660 and 720-721
ExtractWithoutFallback(doc) == _extract_json_from_messages(doc)

\* the extraction if the generic search came before the walk
ExtractFallbackFirst(doc) ==
    LET found == _find_analysis_like_dict(doc)
    IN  IF IsNone(found) THEN _extract_json_from_messages(doc) ELSE found

\* lines 658-660 and 719-721: the candidate taken from a response document
ExtractCandidate(doc) ==
    LET first == _extract_json_from_messages(doc)
    IN  IF IsNone(first) THEN _find_analysis_like_dict(doc) ELSE first

(***************************************************************************)
(* The message normalizer, lines 373-437.  No handler and no function of   *)
(* the Extractor calls it.                                                 *)
(***************************************************************************)
\* the first string under text, value, content of a dict: lines 385-389, 394-397
FirstText(item) ==
    LET found == SelectSeq(<<"text", "value", "content">>, LAMBDA k : IsStr(Get(item, k)))
    IN  IF found = <<>> THEN Null ELSE Get(item, found[1])

RECURSIVE JoinLines(_)
\* "\n".join(parts)
JoinLines(parts) ==
    IF parts = <<>> THEN ""
    ELSE IF Len(parts) = 1 THEN parts[1]
    ELSE parts[1] \o "\n" \o JoinLines(Tail(parts))

\* x or None, for a string x
OrNone(s) == IF s = "" THEN Null ELSE Str(s)

_content_to_text(content) ==
    CASE IsStr(content) -> OrNone(Strip(content.s))
      [] IsList(content) ->
            LET texts == [i \in DOMAIN content.items |->
                             IF IsStr(content.items[i]) THEN content.items[i]
                             ELSE IF IsDict(content.items[i]) THEN FirstText(content.items[i])
                             ELSE Null]
                parts == SelectSeq(texts, LAMBDA t : IsStr(t) /\ Strip(t.s) # "")
            IN  OrNone(JoinLines([i \in DOMAIN parts |-> Strip(parts[i].s)]))
      [] IsDict(content) ->
            IF IsNone(FirstText(content)) THEN Null ELSE OrNone(Strip(FirstText(content).s))
      [] OTHER -> Null

\* the role test of lines 411-420 (the model has no message objects)
AssistantRole(msg) ==
    /\ IsDict(msg)
    /\ Strip(Lower(PyStr(Or(Or(Or(Get(msg, "role"), Get(msg, "speaker")),
                               Get(msg, "author")), Str("")))))
          \in {"assistant", "model", "agent"}

RECURSIVE _extract_assistant_text(_)
_extract_assistant_text(payload) ==
    IF ~IsDict(payload) THEN Null
    ELSE LET messages == Get(payload, "messages")
             texts == IF IsList(messages)
                      THEN SelectSeq([i \in DOMAIN messages.items |->
                                        IF AssistantRole(Reverse(messages.items)[i])
                                        THEN _content_to_text(
                                                 Get(Reverse(messages.items)[i], "content"))
                                        ELSE Null],
                                     LAMBDA t : ~IsNone(t))
                      ELSE <<>>
             message == Get(payload, "message")
             text == IF IsDict(message) THEN _content_to_text(Get(message, "content"))
                     ELSE Null
             data_block == Get(payload, "data")
         IN  IF texts # <<>> THEN texts[1]
             ELSE IF ~IsNone(text) THEN text
             ELSE IF IsDict(data_block) THEN _extract_assistant_text(data_block)
             ELSE Null

(***************************************************************************)
(* The pydantic models, lines 24-140.  A model accepts a dict, ignores     *)
(* unknown keys (extra="ignore") and dumps its fields in declaration       *)
(* order, absent optional fields as their defaults.                        *)
(***************************************************************************)
IsStrList(v) == IsList(v) /\ \A i \in DOMAIN v.items : IsStr(v.items[i])
IsOptStr(v) == IsNone(v) \/ IsStr(v)
IsOptStrList(v) == IsNone(v) \/ IsStrList(v)

\* TextWithSources, lines 24-28
TextWithSourcesOk(v) ==
    IsDict(v) /\ IsStr(Get(v, "text")) /\ IsOptStrList(Get(v, "source_ids"))

TextWithSourcesDump(v) ==
    Dict(<< <<"text", Get(v, "text")>>, <<"source_ids", Get(v, "source_ids")>> >>)

\* Optional[TextWithSources]
OptTextOk(v) == IsNone(v) \/ TextWithSourcesOk(v)
OptTextDump(v) == IF IsNone(v) THEN Null ELSE TextWithSourcesDump(v)

\* GraphNode._normalize_optional_text, lines 55-64: NormalizeRaises is the
\* TypeError of line 64, which pydantic does not turn into a ValidationError
NormalizeRaises(value) == ~(IsNone(value) \/ IsStr(value) \/ IsDict(value))

\* a normalisation that wraps whatever it is given
_normalize_wrapping(value) ==
    IF IsNone(value) THEN value ELSE Dict(<< <<"text", value>> >>)

_normalize_optional_text(value) == IF IsStr(value) THEN Text(value.s) ELSE value

\* the coercion of one of the fields of line 55: the before-validator, then
\* TextWithSources; v is the dumped field when ok
CoerceText(x) ==
    LET normalized == _normalize_optional_text(x)
    IN  IF ~NormalizeRaises(x) /\ OptTextOk(normalized)
        THEN [ok |-> TRUE, v |-> OptTextDump(normalized)]
        ELSE [ok |-> FALSE, v |-> Null]

NodeTextFields == <<"notes", "relationship_to_edited", "role_summary">>

NodeTypes == {"protein", "drug", "entity"}

\* isEdited: bool = False; the default stands in for an absent key only
IsEditedOk(n) == "isEdited" \notin Keys(n) \/ Get(n, "isEdited").t = "bool"
IsEditedDump(n) == IF "isEdited" \in Keys(n) THEN Get(n, "isEdited") ELSE Bool(FALSE)

\* GraphNode, lines 31-64
GraphNodeOk(n) ==
    /\ IsDict(n)
    /\ IsStr(Get(n, "id"))
    /\ IsStr(Get(n, "label"))
    /\ IsStr(Get(n, "type")) /\ Get(n, "type").s \in NodeTypes
    /\ IsEditedOk(n)
    /\ \A i \in DOMAIN NodeTextFields :
          /\ ~NormalizeRaises(Get(n, NodeTextFields[i]))
          /\ OptTextOk(_normalize_optional_text(Get(n, NodeTextFields[i])))
    /\ IsOptStrList(Get(n, "source_ids"))

GraphNodeDump(n) ==
    Dict(<< <<"id", Get(n, "id")>>, <<"label", Get(n, "label")>>,
            <<"type", Get(n, "type")>>,
            <<"isEdited", IsEditedDump(n)>>,
            <<"notes", OptTextDump(_normalize_optional_text(Get(n, "notes")))>>,
            <<"relationship_to_edited",
              OptTextDump(_normalize_optional_text(Get(n, "relationship_to_edited")))>>,
            <<"role_summary",
              OptTextDump(_normalize_optional_text(Get(n, "role_summary")))>>,
            <<"source_ids", Get(n, "source_ids")>> >>)

\* an edge model that rejects unknown keys (extra="forbid")
GraphEdgeForbiddingExtra(e) ==
    /\ IsDict(e)
    /\ Keys(e) \subseteq {"source", "target", "interaction", "mechanism"}
    /\ IsStr(Get(e, "source"))
    /\ IsStr(Get(e, "target"))
    /\ IsStr(Get(e, "interaction"))
    /\ IsOptStr(Get(e, "mechanism"))

\* GraphEdge, lines 67-75
GraphEdgeOk(e) ==
    /\ IsDict(e)
    /\ IsStr(Get(e, "source"))
    /\ IsStr(Get(e, "target"))
    /\ IsStr(Get(e, "interaction"))
    /\ IsOptStr(Get(e, "mechanism"))

GraphEdgeDump(e) ==
    Dict(<< <<"source", Get(e, "source")>>, <<"target", Get(e, "target")>>,
            <<"interaction", Get(e, "interaction")>>,
            <<"mechanism", Get(e, "mechanism")>> >>)

\* line 93
MaxGraphNodes == 10

\* a list field with default_factory=list: [] when the key is absent
ItemsOf(v) == IF IsList(v) THEN v.items ELSE <<>>
ListFieldOk(d, k) == k \notin Keys(d) \/ IsList(Get(d, k))

\* the collection of lines 99-103 if it looked at the source of an edge only
DanglingSourceOnly(nodeIds, edges) ==
    SelectSeq(edges, LAMBDA e : \A i \in DOMAIN nodeIds : nodeIds[i] # Get(e, "source").s)

\* the edges validate_graph collects at lines 99-103
Dangling(nodeIds, edges) ==
    SelectSeq(edges, LAMBDA e :
        \/ \A i \in DOMAIN nodeIds : nodeIds[i] # Get(e, "source").s
        \/ \A i \in DOMAIN nodeIds : nodeIds[i] # Get(e, "target").s)

\* validate_graph without the check of lines 99-106: a graph with an edge to
\* an unknown node would pass
validate_graph_nodes_only(nodes, edges) ==
    LET node_ids == [i \in DOMAIN nodes |-> Get(nodes[i], "id").s]
    IN  /\ Len(node_ids) <= MaxGraphNodes
        /\ Len(node_ids) = Cardinality({node_ids[i] : i \in DOMAIN node_ids})

\* the ValueError validate_graph raises, lines 93-106: its message, and the
\* source and target of the edges that line 105 joins into the message
ValueError(msg, invalid) == [msg |-> msg, invalid |-> invalid]
NoValueError == ValueError("", <<>>)

\* the checks of lines 93-106 with the count test of line 93 as >=
validate_graph_raises_at_limit(nodes, edges) ==
    LET node_ids == [i \in DOMAIN nodes |-> Get(nodes[i], "id").s]
        dangling == Dangling(node_ids, edges)
    IN  IF Len(node_ids) >= MaxGraphNodes
        THEN ValueError("Graph cannot contain more than 10 nodes", <<>>)
        ELSE IF Len(node_ids) # Cardinality({node_ids[i] : i \in DOMAIN node_ids})
        THEN ValueError("Graph nodes must have unique ids", <<>>)
        ELSE IF dangling # <<>>
        THEN ValueError("Edges reference unknown nodes",
                        [i \in DOMAIN dangling |->
                            <<Get(dangling[i], "source").s, Get(dangling[i], "target").s>>])
        ELSE NoValueError

\* the checks of lines 93-106 without the test of lines 95-96
validate_graph_raises_no_unique(nodes, edges) ==
    LET node_ids == [i \in DOMAIN nodes |-> Get(nodes[i], "id").s]
        dangling == Dangling(node_ids, edges)
    IN  IF Len(node_ids) > MaxGraphNodes
        THEN ValueError("Graph cannot contain more than 10 nodes", <<>>)
        ELSE IF dangling # <<>>
        THEN ValueError("Edges reference unknown nodes",
                        [i \in DOMAIN dangling |->
                            <<Get(dangling[i], "source").s, Get(dangling[i], "target").s>>])
        ELSE NoValueError

\* the checks of lines 93-106, in their order
validate_graph_raises(nodes, edges) ==
    LET node_ids == [i \in DOMAIN nodes |-> Get(nodes[i], "id").s]
        dangling == Dangling(node_ids, edges)
    IN  IF Len(node_ids) > MaxGraphNodes
        THEN ValueError("Graph cannot contain more than 10 nodes", <<>>)
        ELSE IF Len(node_ids) # Cardinality({node_ids[i] : i \in DOMAIN node_ids})
        THEN ValueError("Graph nodes must have unique ids", <<>>)
        ELSE IF dangling # <<>>
        THEN ValueError("Edges reference unknown nodes",
                        [i \in DOMAIN dangling |->
                            <<Get(dangling[i], "source").s, Get(dangling[i], "target").s>>])
        ELSE NoValueError

\* InteractionGraph.validate_graph, lines 90-107, on validated nodes and edges
validate_graph(nodes, edges) == validate_graph_raises(nodes, edges) = NoValueError

\* InteractionGraph, lines 78-107
InteractionGraphOk(g) ==
    /\ IsDict(g)
    /\ ListFieldOk(g, "nodes")
    /\ ListFieldOk(g, "edges")
    /\ \A i \in DOMAIN ItemsOf(Get(g, "nodes")) : GraphNodeOk(ItemsOf(Get(g, "nodes"))[i])
    /\ \A i \in DOMAIN ItemsOf(Get(g, "edges")) : GraphEdgeOk(ItemsOf(Get(g, "edges"))[i])
    /\ validate_graph(ItemsOf(Get(g, "nodes")), ItemsOf(Get(g, "edges")))

InteractionGraphDump(g) ==
    LET nodes == ItemsOf(Get(g, "nodes"))
        edges == ItemsOf(Get(g, "edges"))
    IN  Dict(<< <<"nodes", List([i \in DOMAIN nodes |-> GraphNodeDump(nodes[i])])>>,
                <<"edges", List([i \in DOMAIN edges |-> GraphEdgeDump(edges[i])])>> >>)

\* confidence: ge=0.0, le=1.0 (lines 123-124), in tenths
ConfidenceMin == 0
ConfidenceMax == 10

\* confidence with the upper bound excluded
ConfidenceBelowMax(v) ==
    IsNone(v) \/ (v.t = "num" /\ v.n >= 0 /\ v.n < 10)

ConfidenceOk(v) ==
    IsNone(v) \/ (v.t = "num" /\ v.n >= ConfidenceMin /\ v.n <= ConfidenceMax)

\* EditedProtein, lines 110-126
EditedProteinOk(p) ==
    /\ IsDict(p)
    /\ IsStr(Get(p, "id"))
    /\ IsStr(Get(p, "label"))
    /\ OptTextOk(Get(p, "description"))
    /\ ListFieldOk(p, "mutations")
    /\ \A i \in DOMAIN ItemsOf(Get(p, "mutations")) :
          TextWithSourcesOk(ItemsOf(Get(p, "mutations"))[i])
    /\ ConfidenceOk(Get(p, "confidence"))

EditedProteinDump(p) ==
    LET muts == ItemsOf(Get(p, "mutations"))
    IN  Dict(<< <<"id", Get(p, "id")>>, <<"label", Get(p, "label")>>,
                <<"description", OptTextDump(Get(p, "description"))>>,
                <<"mutations", List([i \in DOMAIN muts |-> TextWithSourcesDump(muts[i])])>>,
                <<"confidence", Get(p, "confidence")>> >>)

\* NotebookAnalysisResult, lines 129-140
NotebookAnalysisResultOk(c) ==
    /\ IsDict(c)
    /\ TextWithSourcesOk(Get(c, "analysis_summary"))
    /\ EditedProteinOk(Get(c, "edited_protein"))
    /\ InteractionGraphOk(Get(c, "graph"))

\* the validators pydantic reaches call _normalize_optional_text on every
\* node that is a dict; its TypeError leaves model_validate as it is
ValidationRaisesTypeError(c) ==
    /\ IsDict(c)
    /\ IsDict(Get(c, "graph"))
    /\ \E i \in DOMAIN ItemsOf(Get(Get(c, "graph"), "nodes")) :
          LET n == ItemsOf(Get(Get(c, "graph"), "nodes"))[i]
          IN  IsDict(n) /\ \E f \in DOMAIN NodeTextFields :
                              NormalizeRaises(Get(n, NodeTextFields[f]))

\* model_dump() of the validated model
model_dump(c) ==
    Dict(<< <<"analysis_summary", TextWithSourcesDump(Get(c, "analysis_summary"))>>,
            <<"edited_protein", EditedProteinDump(Get(c, "edited_protein"))>>,
            <<"graph", InteractionGraphDump(Get(c, "graph"))>> >>)

\* NotebookAnalysisResult.model_validate: err is "" and v the validated
\* model (held as its dump), or err names the exception raised
model_validate(c) ==
    CASE ValidationRaisesTypeError(c) -> [err |-> "TypeError", v |-> Null]
      [] NotebookAnalysisResultOk(c)  -> [err |-> "", v |-> model_dump(c)]
      [] OTHER -> [err |-> "ValidationError", v |-> Null]

\* the ValueError of validate_graph among the errors a rejection reports:
\* the validator runs once the nodes and the edges have validated
GraphValueError(c) ==
    IF /\ IsDict(c)
       /\ IsDict(Get(c, "graph"))
       /\ LET g == Get(c, "graph")
          IN  /\ ListFieldOk(g, "nodes")
              /\ ListFieldOk(g, "edges")
              /\ \A i \in DOMAIN ItemsOf(Get(g, "nodes")) :
                    GraphNodeOk(ItemsOf(Get(g, "nodes"))[i])
              /\ \A i \in DOMAIN ItemsOf(Get(g, "edges")) :
                    GraphEdgeOk(ItemsOf(Get(g, "edges"))[i])
       /\ ~ValidationRaisesTypeError(c)
    THEN validate_graph_raises(ItemsOf(Get(Get(c, "graph"), "nodes")),
                               ItemsOf(Get(Get(c, "graph"), "edges")))
    ELSE NoValueError

(***************************************************************************)
(* The documents the agent may answer with, and the candidates a           *)
(* collaborator may post.                                                  *)
(***************************************************************************)
NodeIds == <<"P1", "P2", "P3", "P4", "P5", "P6", "P7", "P8", "P9", "P10", "P11">>

Nodes(n) == [i \in 1..n |-> Node(NodeIds[i])]

\* a node as the mock payload gives it: notes as a bare string, an unknown
\* key; its other texts as objects, with sources and an unknown key, or bare
RichNode(id) ==
    Dict(<< <<"id", Str(id)>>, <<"label", Str(id)>>, <<"type", Str("drug")>>,
            <<"isEdited", Bool(TRUE)>>, <<"notes", Str("note")>>,
            <<"relationship_to_edited",
              Dict(<< <<"text", Str("binds")>>,
                      <<"source_ids", List(<<Str("src-notebook")>>)>>,
                      <<"explanation", Str("x")>> >>)>>,
            <<"role_summary", Text("role")>>,
            <<"explanation", Str("x")>> >>)

PayloadB ==
    Dict(<< <<"breakthrough_summary", Text("B")>>,
            <<"analysis_summary", Text("S2")>>,
            <<"edited_protein",
              Dict(<< <<"id", Str("P1")>>, <<"label", Str("CFTR")>>,
                      <<"mutations", List(<<Text("F508S")>>)>>,
                      <<"confidence", Num(7)>> >>)>>,
            <<"graph", Graph(<<RichNode("P1"), Node("P2")>>, <<Edge("P1", "P2")>>)>> >>)

\* an edge as the mock payload gives it: an explanation and sources
RichEdge(src, tgt) ==
    Dict(<< <<"source", Str(src)>>, <<"target", Str(tgt)>>,
            <<"interaction", Str("binds")>>,
            <<"explanation", Str("x")>>,
            <<"source_ids", List(<<Str("src-notebook")>>)>> >>)

\* PayloadB as send_mock_analysis.py would post it: unknown keys at the
\* root, in the edited protein, in the graph, in nodes, edges and texts
PayloadMock ==
    Dict(<< <<"breakthrough_summary", Text("B")>>,
            <<"confidence", Num(7)>>,
            <<"next_steps", List(<<Text("validate")>>)>>,
            <<"analysis_summary",
              Dict(<< <<"text", Str("S2")>>, <<"explanation", Str("x")>> >>)>>,
            <<"edited_protein",
              Dict(<< <<"id", Str("P1")>>, <<"label", Str("CFTR")>>,
                      <<"mutations",
                        List(<<Dict(<< <<"text", Str("F508S")>>,
                                       <<"explanation", Str("x")>> >>)>>)>>,
                      <<"confidence", Num(7)>>,
                      <<"target_protein", Text("CFTR")>> >>)>>,
            <<"graph",
              Dict(<< <<"nodes", List(<<RichNode("P1"), Node("P2")>>)>>,
                      <<"edges", List(<<RichEdge("P1", "P2")>>)>>,
                      <<"layout", Str("x")>> >>)>>,
            <<"statistical_analysis", Dict(<< <<"summary", Str("x")>> >>)>> >>)

\* an edited protein with a confidence, in tenths
ProteinWith(id, confidence) ==
    Dict(<< <<"id", Str(id)>>, <<"label", Str("CFTR")>>, <<"confidence", Num(confidence)>> >>)

PayloadFull ==
    Payload(Text("S"), ProteinWith("P1", ConfidenceMax),
            Graph(Nodes(MaxGraphNodes), <<Edge("P1", "P10")>>))
PayloadTooMany == Payload(Text("S"), Protein("P1"), Graph(Nodes(MaxGraphNodes + 1), <<>>))
PayloadTooManyDangling ==
    Payload(Text("S"), Protein("P1"), Graph(Nodes(MaxGraphNodes + 1), <<Edge("P1", "ZZZ")>>))
PayloadZeroConfidence == Payload(Text("S"), ProteinWith("P1", ConfidenceMin), Graph(<<>>, <<>>))
PayloadNegativeConfidence ==
    Payload(Text("S"), ProteinWith("P1", ConfidenceMin - 1), Graph(<<>>, <<>>))
PayloadDuplicate == Payload(Text("S"), Protein("P1"), Graph(<<Node("P1"), Node("P1")>>, <<>>))
PayloadDangling ==
    Payload(Text("S"), Protein("P1"),
            Graph(Nodes(2), <<Edge("P1", "ZZZ"), Edge("P1", "P2"), Edge("ZZZ", "P2")>>))

PayloadStrSummary == Payload(Str("S"), Protein("P1"), Graph(<<>>, <<>>))
PayloadBadConfidence ==
    Payload(Text("S"), ProteinWith("P1", ConfidenceMax + 2), Graph(<<>>, <<>>))

PayloadBadNotes ==
    Payload(Text("S"), Protein("P1"),
            Graph(<<Dict(<< <<"id", Str("P1")>>, <<"label", Str("P1")>>,
                            <<"type", Str("protein")>>, <<"notes", Num(10)>> >>)>>, <<>>))

\* what a collaborator may post to /api/analysis/result
Candidates ==
    {PayloadA, PayloadB, PayloadMock, PayloadFull, PayloadTooMany, PayloadDangling,
     PayloadBadNotes, List(<<>>)}

Message(role, content) == Dict(<< <<"role", Str(role)>>, <<"content", content>> >>)
Messages(msgs) == Dict(<< <<"messages", List(msgs)>> >>)
Block(key, v) == Dict(<< <<key, v>> >>)
UserMsg == Message("user", Str("ANALYZE"))

\* responses that carry a run id and no analysis
RunDocs ==
    { Dict(<< <<"run_id", Str("run-1")>> >>),
      Dict(<< <<"id", Str("run-2")>>, <<"messages", List(<<UserMsg>>)>> >>),
      Dict(<< <<"data", Dict(<< <<"message_id", Str("run-3")>> >>)>> >>),
      \* an empty string under the last key is a str all the same
      Dict(<< <<"message_id", Str("")>> >>) }

\* responses with neither an analysis nor a usable run id
EmptyDocs ==
    { Dict(<<>>),
      List(<<>>),
      Dict(<< <<"run_id", Num(50)>> >>),
      \* a key that holds something else than a string hides the keys after it
      Dict(<< <<"run_id", Num(50)>>, <<"id", Str("run-2")>> >>),
      Messages(<<>>),
      Messages(<<UserMsg, Message("assistant", Str("Working on it"))>>) }

\* responses from which a candidate is extracted
AnalysisDocs ==
    { PayloadA,
      Dict(<< <<"run_id", Str("run-1")>>, <<"analysis_summary", Text("S2")>>,
              <<"edited_protein", Get(PayloadB, "edited_protein")>>,
              <<"graph", Get(PayloadB, "graph")>> >>),
      Dict(<< <<"run_id", Str("run-1")>>,
              <<"messages", List(<<UserMsg,
                    Message("assistant", List(<<Block("json", PayloadB)>>))>>)>> >>),
      Messages(<<UserMsg, Message("Assistant", Str(PayloadAText))>>),
      Messages(<<Dict(<< <<"message_type", Str("assistant_message")>>,
                         <<"content", Dict(<< <<"data", PayloadFull>> >>)>> >>)>>),
      Dict(<< <<"result", Dict(<< <<"items", List(<<Num(10), PayloadFull>>)>> >>)>> >>),
      Dict(<< <<"messages", List(<<Message("assistant", List(<<Block("json", Str("null"))>>))>>)>>,
              <<"final", PayloadA>> >>),
      Messages(<<Message("agent", List(<<Block("data", PayloadTooMany)>>))>>),
      Messages(<<Message("model", List(<<Block("value", PayloadDuplicate)>>))>>),
      Messages(<<Message("assistant", List(<<Block("content", PayloadDangling)>>))>>),
      Messages(<<Message("assistant", List(<<Block("data", PayloadStrSummary)>>))>>),
      Messages(<<Message("assistant", List(<<Block("json", PayloadBadConfidence)>>))>>),
      Messages(<<Message("assistant", List(<<Block("json", PayloadBadNotes)>>))>>),
      Messages(<<Message("assistant", List(<<Block("json", PayloadTooManyDangling)>>))>>),
      Messages(<<Message("assistant", List(<<Block("json", PayloadZeroConfidence)>>))>>),
      Messages(<<Message("assistant", List(<<Block("json", PayloadNegativeConfidence)>>))>>),
      Messages(<<Message("assistant",
                    List(<<Dict(<< <<"mime_type", Str("application/json")>>,
                                   <<"text", Str("[]")>> >>)>>))>>),
      Messages(<<Message("assistant", List(<<Block("json", Str("7"))>>))>>),
      \* a valid analysis next to a candidate of higher precedence
      Messages(<<Message("assistant", List(<<Block("data", PayloadFull)>>)),
                 Message("assistant", Str("{}"))>>),
      Dict(<< <<"run_id", Str("run-1")>>, <<"analysis_summary", Text("S")>>,
              <<"edited_protein", Protein("P1")>>, <<"graph", Graph(<<>>, <<>>)>>,
              <<"messages", List(<<Message("assistant", List(<<Block("json", Dict(<<>>))>>))>>)>> >>) }

\* what the message fetch answers: message envelopes among the documents
FetchDocs ==
    { Messages(<<>>),
      Dict(<< <<"run_id", Str("run-1")>>,
              <<"messages", List(<<UserMsg,
                    Message("assistant", List(<<Block("json", PayloadB)>>))>>)>> >>),
      Messages(<<UserMsg, Message("Assistant", Str(PayloadAText))>>),
      Messages(<<Dict(<< <<"message_type", Str("assistant_message")>>,
                         <<"content", Dict(<< <<"data", PayloadFull>> >>)>> >>)>>),
      Messages(<<Message("assistant", List(<<Block("content", PayloadDangling)>>))>>),
      Messages(<<Message("assistant", List(<<Block("json", Str("7"))>>))>>),
      Messages(<<Message("assistant", List(<<Block("data", PayloadFull)>>)),
                 Message("assistant", Str("{}"))>>) }

Docs == RunDocs \cup EmptyDocs \cup AnalysisDocs

\* bodies of GET /v1/runs/{run_id}
StatusDocs ==
    { Dict(<< <<"state", Str("running")>> >>),
      Dict(<<>>),
      Dict(<< <<"state", Dict(<< <<"name", Str("completed")>> >>)>> >>),
      Dict(<< <<"state", Str("completed")>> >>),
      Dict(<< <<"status", Str("COMPLETED")>> >>),
      Dict(<< <<"state", Str("Finished")>> >>),
      Dict(<< <<"state", Str("succeeded")>> >>),
      Dict(<< <<"state", Str("failed")>> >>),
      Dict(<< <<"state", Null>>, <<"status", Str("Error")>> >>) }

(***************************************************************************)
(* The service.  The handlers are async functions that never await: the    *)
(* event loop runs one request to its response before it takes the next,   *)
(* so a letta_analyze waiting for the agent (pc # "idle") excludes every   *)
(* other handler.  letta_analyze takes one step per outbound call: the     *)
(* submission, each status check, the message fetch.                       *)
(***************************************************************************)
VARIABLES
    LETTA_TOKEN,              \* whether the credential is configured (line 165)
    LETTA_TEMPLATE_VERSION,   \* whether a template is configured (line 167)
    _latest_agent_id,         \* line 180: Null or Str(id)
    _latest_analysis_result,  \* line 181: Null or the validated model
    stored_source,            \* source= of the last "analysis stored" log line
    pc,                       \* "idle", or where letta_analyze stands
    now,                      \* time.time() at line 688, from the start of the loop
    deadline,                 \* line 684
    response,                 \* the response to the last finished request
    query_agentId,            \* line 625: request.query_params.get("agentId")
    analyze_agent_id,         \* line 625: the agent the submission addresses
    start_payload,            \* line 647: the body of the submission response
    messages_data,            \* line 711: the body of the message fetch
    analysis_payload,         \* lines 657-660, 719-721: the candidate
    calls,                    \* outbound calls made by the current or last request
    last_state,               \* state computed by the last status check (lines 700-704)
    waited,                   \* a status check answered a token that is not terminal
    poll_exc,                 \* the latest status check of the run raised (line 695)
    overran,                  \* the latest status answer came after the deadline
    before,                   \* the slot when the current or last request began
    written,                  \* the model passed to the last _store_analysis_result
    written_by                \* who passed it: "inline", "polled" or "external"

vars == <<LETTA_TOKEN, LETTA_TEMPLATE_VERSION, _latest_agent_id, _latest_analysis_result,
          stored_source, pc, now, deadline, response, query_agentId, analyze_agent_id,
          start_payload, messages_data,
          analysis_payload, calls, last_state, waited, poll_exc, overran, before, written,
          written_by>>

env == <<LETTA_TOKEN, LETTA_TEMPLATE_VERSION>>
locals == <<start_payload, messages_data, analysis_payload>>
\* read by the submission only (line 640): forgotten once it has answered
query == <<query_agentId, analyze_agent_id>>
observers == <<calls, last_state, waited, poll_exc, overran, before, written,
               written_by>>

\* lines 683-684 and the timeout of every httpx.Client (lines 638, 690, 708)
PollInterval == 3
PollBudget == 1200
CallTimeout == 120

\* how long a status check may take, within its timeout: with the sleep of
\* PollInterval an iteration lasts one or two minutes, and some runs read the
\* clock exactly at the deadline
Durations == {57, 117}

AgentIds == {"agent-1", "agent-2"}

Response(op, status, detail, body) ==
    [op |-> op, status |-> status, detail |-> detail, body |-> body]

NoResponse == Response("none", 0, "", Null)

Init ==
    /\ LETTA_TOKEN \in BOOLEAN
    /\ LETTA_TEMPLATE_VERSION \in BOOLEAN
    /\ _latest_agent_id = Null
    /\ _latest_analysis_result = Null
    /\ stored_source = ""
    /\ pc = "idle"
    /\ now = 0
    /\ deadline = 0
    /\ response = NoResponse
    /\ start_payload = Null
    /\ query_agentId = Null
    /\ analyze_agent_id = Null
    /\ messages_data = Null
    /\ analysis_payload = Null
    /\ calls = {}
    /\ last_state = Null
    /\ waited = FALSE
    /\ poll_exc = FALSE
    /\ overran = FALSE
    /\ before = Null
    /\ written = Null
    /\ written_by = "none"

\* a store that writes field by field and is read half-way: the new summary
\* with the protein and the graph of the result before
_store_field_by_field(slot, result, source) ==
    [slot |-> IF IsNone(slot) THEN result
              ELSE Dict(<< <<"analysis_summary", Get(result, "analysis_summary")>>,
                           <<"edited_protein", Get(slot, "edited_protein")>>,
                           <<"graph", Get(slot, "graph")>> >>),
     source |-> source]

\* a store that keeps the first result it was given
_store_first_result(slot, result, source) ==
    [slot |-> IF IsNone(slot) THEN result ELSE slot, source |-> source]

\* a store that logs one source whoever the caller is
_store_one_source(slot, result, source) ==
    [slot |-> result, source |-> "letta.analyze"]

\* _store_analysis_result, lines 184-202: the new slot and the logged source
_store_analysis_result(slot, result, source) ==
    [slot |-> result, source |-> source]

\* lines 700-704
StatusState(status_data) ==
    LET state == IF IsDict(status_data)
                 THEN Or(Get(status_data, "state"), Get(status_data, "status"))
                 ELSE Null
    IN  IF IsStr(state) THEN Str(Lower(state.s)) ELSE state

SuccessTokens == {"completed", "finished", "succeeded"}
FailureTokens == {"failed", "error"}

\* tests of the state that know fewer tokens than lines 706 and 726
IsSuccessCompletedOnly(state) == IsStr(state) /\ state.s = "completed"
IsFailureFailedOnly(state) == IsStr(state) /\ state.s = "failed"

\* state in {...}: hashing a dict or a list raises TypeError
Unhashable(state) == IsDict(state) \/ IsList(state)
IsSuccess(state) == IsStr(state) /\ state.s \in SuccessTokens
IsFailure(state) == IsStr(state) /\ state.s \in FailureTokens

\* lines 664-678
RunIdOf(body) ==
    IF ~IsDict(body) THEN Null
    ELSE LET top == Or(Or(Get(body, "run_id"), Get(body, "id")),
                       Get(body, "message_id"))
             data_block == Get(body, "data")
         IN  IF ~Truthy(top) /\ IsDict(data_block)
             THEN Or(Or(Get(data_block, "run_id"), Get(data_block, "id")),
                     Get(data_block, "message_id"))
             ELSE top

\* the request ends with 422; the body stands for the text of the errors
\* that follows the detail (line 738), of which the ValueError is kept
FailValidation(op, detail, candidate) ==
    /\ response' = Response(op, 422, detail, GraphValueError(candidate))
    /\ pc' = "idle"
    /\ now' = 0
    /\ deadline' = 0
    /\ UNCHANGED <<_latest_agent_id, _latest_analysis_result, stored_source,
                   written, written_by>>

\* an error path that drops the stored result
FailClearingSlot(op, status, detail) ==
    /\ response' = Response(op, status, detail, Null)
    /\ pc' = "idle"
    /\ now' = 0
    /\ deadline' = 0
    /\ _latest_analysis_result' = Null
    /\ UNCHANGED <<_latest_agent_id, stored_source, written, written_by>>

\* the request ends with an HTTPException or an unhandled exception
Fail(op, status, detail) ==
    /\ response' = Response(op, status, detail, Null)
    /\ pc' = "idle"
    /\ now' = 0
    /\ deadline' = 0
    /\ UNCHANGED <<_latest_agent_id, _latest_analysis_result, stored_source,
                   written, written_by>>

\* lines 734-742 if the answer carried the validated model in place of the
\* candidate
ValidateStoreAndReturnModel(candidate, path) ==
    \E validated \in {model_validate(candidate)} :
    LET stored == _store_analysis_result(_latest_analysis_result, validated.v,
                                         "letta.analyze")
    IN  IF validated.err # ""
        THEN IF IsDict(candidate)
             THEN FailValidation("analyze", "Analysis failed validation", candidate)
             ELSE Fail("analyze", 500, "Internal Server Error")
        ELSE /\ _latest_analysis_result' = stored.slot
             /\ stored_source' = stored.source
             /\ written' = validated.v
             /\ written_by' = path
             /\ response' = Response("analyze", 200, "", validated.v)
             /\ pc' = "idle"
             /\ now' = 0
             /\ deadline' = 0
             /\ UNCHANGED _latest_agent_id

\* lines 734-742: validate the candidate, store the model, answer with the
\* candidate as extracted
ValidateAndStore(candidate, path) ==
    \E validated \in {model_validate(candidate)} :
    LET stored == _store_analysis_result(_latest_analysis_result, validated.v,
                                         "letta.analyze")
    IN  IF validated.err # ""
        THEN \* line 737 reads analysis_payload.keys(): AttributeError unless a dict
             IF IsDict(candidate)
             THEN FailValidation("analyze", "Analysis failed validation", candidate)
             ELSE Fail("analyze", 500, "Internal Server Error")
        ELSE /\ _latest_analysis_result' = stored.slot
             /\ stored_source' = stored.source
             /\ written' = validated.v
             /\ written_by' = path
             /\ response' = Response("analyze", 200, "", candidate)
             /\ pc' = "idle"
             /\ now' = 0
             /\ deadline' = 0
             /\ UNCHANGED _latest_agent_id

\* a request starts: the locals of letta_analyze and what is recorded of its
\* outbound calls belong to one request
NewRequest ==
    /\ calls' = {}
    /\ last_state' = Null
    /\ waited' = FALSE
    /\ poll_exc' = FALSE
    /\ overran' = FALSE
    /\ start_payload' = Null
    /\ query_agentId' = Null
    /\ analyze_agent_id' = Null
    /\ messages_data' = Null
    /\ analysis_payload' = Null

\* an agent choice that prefers the created agent to the query parameter
AgentPreferringCreated(agentId, latest) == Or(latest, agentId)

\* line 625: request.query_params.get("agentId") or _latest_agent_id
AgentFor(agentId, latest) == Or(agentId, latest)

\* letta_analyze up to the submission, lines 617-643
AnalyzeStart(agentId) ==
    /\ pc = "idle"
    /\ before' = _latest_analysis_result
    /\ last_state' = Null
    /\ waited' = FALSE
    /\ poll_exc' = FALSE
    /\ overran' = FALSE
    /\ start_payload' = Null
    /\ messages_data' = Null
    /\ analysis_payload' = Null
    /\ query_agentId' = agentId
    /\ analyze_agent_id' = AgentFor(agentId, _latest_agent_id)
    /\ UNCHANGED env
    /\ IF ~(LETTA_TOKEN /\ Truthy(analyze_agent_id'))
       THEN /\ calls' = {}
            /\ Fail("analyze", 400, "Agent not configured or missing")
       ELSE /\ calls' = {"submit"}
            /\ pc' = "submitting"
            /\ response' = NoResponse
            /\ UNCHANGED <<_latest_agent_id, _latest_analysis_result, stored_source,
                           now, deadline, written, written_by>>

\* the submission fails (httpx error or raise_for_status, line 644: not
\* caught) or its body is not JSON (lines 646-649)
SubmitFails(outcome) ==
    /\ pc = "submitting"
    /\ query_agentId' = Null
    /\ analyze_agent_id' = Null
    /\ UNCHANGED <<env, locals, observers>>
    /\ CASE outcome = "error"   -> Fail("analyze", 500, "Internal Server Error")
         [] outcome = "badjson" -> Fail("analyze", 502, "Invalid Letta response")
         [] OTHER -> FALSE

\* the submission answers body: lines 646-686
SubmitAnswers(body) ==
    /\ pc = "submitting"
    /\ query_agentId' = Null
    /\ analyze_agent_id' = Null
    /\ messages_data' = Null
    /\ UNCHANGED <<env, calls, last_state, waited, poll_exc, overran, before>>
    /\ \E candidate \in {ExtractCandidate(body)} :
       /\ analysis_payload' = candidate
       /\ IF ~IsNone(candidate)
          THEN /\ start_payload' = body
               /\ ValidateAndStore(candidate, "inline")
          ELSE IF ~IsStr(RunIdOf(body))
          THEN /\ start_payload' = body
               /\ Fail("analyze", 502, "Letta response missing run id")
          ELSE /\ start_payload' = body
               /\ pc' = "polling"
               /\ now' = 0
               /\ deadline' = now' + PollBudget
               /\ UNCHANGED <<_latest_agent_id, _latest_analysis_result,
                              stored_source, response, written, written_by>>

\* a loop condition that admits one more iteration at the deadline
InLoopInclusive == now <= deadline

\* the loop condition, line 688
InLoop == now < deadline

\* the loop condition fails: lines 688, 731-732
PollTimeout ==
    /\ pc = "polling"
    /\ ~InLoop
    /\ Fail("analyze", 504, "Letta analysis timed out")
    /\ UNCHANGED <<env, query, locals, observers>>

\* a status check that raises after one that raised ends the run
PollErrorGivingUp(d) ==
    /\ pc = "polling"
    /\ InLoop
    /\ calls' = calls \cup {"status"}
    /\ poll_exc' = TRUE
    /\ UNCHANGED <<env, query, locals, last_state, waited, overran, before>>
    /\ IF poll_exc
       THEN Fail("analyze", 502, "Letta status check failed")
       ELSE /\ now' = now + d + PollInterval
            /\ UNCHANGED <<_latest_agent_id, _latest_analysis_result, stored_source,
                           pc, deadline, response, written, written_by>>

\* one iteration whose status check raises: lines 689-698
PollError(d) ==
    /\ pc = "polling"
    /\ InLoop
    /\ calls' = calls \cup {"status"}
    /\ poll_exc' = TRUE
    /\ now' = now + d + PollInterval
    /\ UNCHANGED <<env, _latest_agent_id, _latest_analysis_result, stored_source, pc,
                   deadline, response, query, locals, last_state, waited, overran, before,
                   written,
                   written_by>>

\* one iteration whose status check answers status_data after d seconds:
\* lines 689-706 and 726-729
PollStatus(d, status_data) ==
    /\ pc = "polling"
    /\ InLoop
    /\ last_state' = StatusState(status_data)
    /\ poll_exc' = FALSE
    /\ overran' = (now + d > deadline)
    /\ calls' = calls \cup {"status"}
    /\ UNCHANGED <<env, query, locals, before>>
    /\ LET state == StatusState(status_data)
       IN  waited' = (waited \/ ~(Unhashable(state) \/ IsSuccess(state) \/ IsFailure(state)))
    /\ LET state == StatusState(status_data)
       IN  CASE Unhashable(state) -> Fail("analyze", 500, "Internal Server Error")
             [] IsSuccess(state) ->
                    \* the clock is not read again on this path
                    /\ pc' = "fetching"
                    /\ now' = 0
                    /\ UNCHANGED <<_latest_agent_id, _latest_analysis_result, stored_source,
                                   deadline, response, written, written_by>>
             [] IsFailure(state) -> Fail("analyze", 502, "Letta reported run failure")
             [] OTHER ->
                    /\ now' = now + d + PollInterval
                    /\ UNCHANGED <<_latest_agent_id, _latest_analysis_result, stored_source,
                                   pc, deadline, response, written, written_by>>

\* a message fetch whose failure is absorbed: the run goes on polling
FetchFailsAbsorbed ==
    /\ pc = "fetching"
    /\ calls' = calls \cup {"messages"}
    /\ pc' = "polling"
    /\ now' = now + PollInterval
    /\ UNCHANGED <<env, query, locals, last_state, waited, poll_exc, overran, before,
                   _latest_agent_id, _latest_analysis_result, stored_source,
                   deadline, response, written, written_by>>

\* the message fetch raises: lines 707-711, 722-723
FetchFails ==
    /\ pc = "fetching"
    /\ calls' = calls \cup {"messages"}
    /\ UNCHANGED <<env, query, locals, last_state, waited, poll_exc, overran, before>>
    /\ Fail("analyze", 502, "Failed to fetch analysis")

\* a message fetch after which the run polls again when the messages carry
\* no candidate
FetchAnswersRetrying(body) ==
    /\ pc = "fetching"
    /\ calls' = calls \cup {"messages"}
    /\ messages_data' = body
    /\ UNCHANGED <<env, query, start_payload, last_state, waited, poll_exc, overran,
                   before>>
    /\ \E candidate \in {ExtractCandidate(body)} :
       /\ analysis_payload' = candidate
       /\ IF IsNone(candidate)
          THEN /\ pc' = "polling"
               /\ now' = PollInterval
               /\ UNCHANGED <<_latest_agent_id, _latest_analysis_result, stored_source,
                              deadline, response, written, written_by>>
          ELSE ValidateAndStore(candidate, "polled")

\* the message fetch answers messages_data: lines 707-724, 731-742
FetchAnswers(body) ==
    /\ pc = "fetching"
    /\ calls' = calls \cup {"messages"}
    /\ messages_data' = body
    /\ UNCHANGED <<env, query, start_payload, last_state, waited, poll_exc, overran,
                   before>>
    /\ \E candidate \in {ExtractCandidate(body)} :
       /\ analysis_payload' = candidate
       /\ IF IsNone(candidate)
          THEN Fail("analyze", 504, "Letta analysis timed out")
          ELSE ValidateAndStore(candidate, "polled")

\* POST /api/analysis/result, lines 801-806: the framework validates the body
analysis_result(candidate) ==
    /\ pc = "idle"
    /\ before' = _latest_analysis_result
    /\ calls' = {}
    /\ last_state' = Null
    /\ waited' = FALSE
    /\ poll_exc' = FALSE
    /\ overran' = FALSE
    /\ start_payload' = Null
    /\ query_agentId' = Null
    /\ analyze_agent_id' = Null
    /\ messages_data' = Null
    /\ analysis_payload' = Null
    /\ UNCHANGED <<env, _latest_agent_id, pc, now, deadline>>
    /\ \E validated \in {model_validate(candidate)} :
       LET stored == _store_analysis_result(_latest_analysis_result, validated.v,
                                            "api.analysis.result")
       IN  CASE validated.err = "ValidationError" ->
                    /\ response' = Response("submit", 422, "Unprocessable Entity",
                                            GraphValueError(candidate))
                    /\ UNCHANGED <<_latest_analysis_result, stored_source, written, written_by>>
             [] validated.err = "TypeError" ->
                    /\ response' = Response("submit", 500, "Internal Server Error", Null)
                    /\ UNCHANGED <<_latest_analysis_result, stored_source, written, written_by>>
             [] OTHER ->
                    /\ _latest_analysis_result' = stored.slot
                    /\ stored_source' = stored.source
                    /\ written' = validated.v
                    /\ written_by' = "external"
                    /\ response' = Response("submit", 200, "", Dict(<< <<"ok", Bool(TRUE)>> >>))

\* what GET /api/analysis/result answers, lines 809-817
GetResult(slot) ==
    IF IsNone(slot) THEN Response("get", 404, "No analysis available", Null)
    ELSE Response("get", 200, "", slot)

get_analysis_result ==
    /\ pc = "idle"
    /\ response' = GetResult(_latest_analysis_result)
    /\ NewRequest
    /\ UNCHANGED <<env, _latest_agent_id, _latest_analysis_result, stored_source, pc, now,
                   deadline, before, written, written_by>>

\* a creation that starts the new agent with an empty result slot
letta_create_resetting(created, agent_id) ==
    /\ pc = "idle"
    /\ NewRequest
    /\ UNCHANGED <<env, pc, now, deadline, before, written, written_by>>
    /\ IF LETTA_TOKEN /\ LETTA_TEMPLATE_VERSION
       THEN IF created
            THEN /\ _latest_agent_id' = Str(agent_id)
                 /\ _latest_analysis_result' = Null
                 /\ stored_source' = ""
                 /\ response' = Response("create", 200, "letta.create.created", Str(agent_id))
            ELSE /\ response' = Response("create", 502, "Letta error", Null)
                 /\ UNCHANGED <<_latest_agent_id, _latest_analysis_result, stored_source>>
       ELSE /\ created = FALSE
            /\ _latest_agent_id' = Null
            /\ response' = Response("create", 200, "letta.create.received", Null)
            /\ UNCHANGED <<_latest_analysis_result, stored_source>>

\* POST /api/letta/create, lines 509-596
letta_create(created, agent_id) ==
    /\ pc = "idle"
    /\ NewRequest
    /\ UNCHANGED <<env, _latest_analysis_result, stored_source, pc, now, deadline, before,
                   written, written_by>>
    /\ IF LETTA_TOKEN /\ LETTA_TEMPLATE_VERSION
       THEN IF created
            THEN /\ _latest_agent_id' = Str(agent_id)
                 /\ response' = Response("create", 200, "letta.create.created", Str(agent_id))
            ELSE /\ response' = Response("create", 502, "Letta error", Null)
                 /\ UNCHANGED _latest_agent_id
       ELSE /\ created = FALSE
            /\ _latest_agent_id' = Null
            /\ response' = Response("create", 200, "letta.create.received", Null)

\* lines 780-790: the save is forwarded when the token and a created agent
\* are there and _send_notebook_to_letta does not raise
Forwarded(sent) == LETTA_TOKEN /\ Truthy(_latest_agent_id) /\ sent

\* POST /api/notebook/save, lines 755-798
notebook_save(sent) ==
    /\ pc = "idle"
    /\ NewRequest
    /\ response' = Response("save", 200, "",
                            Dict(<< <<"ok", Bool(TRUE)>>,
                                    <<"forwarded", Bool(Forwarded(sent))>> >>))
    /\ UNCHANGED <<env, _latest_agent_id, _latest_analysis_result, stored_source, pc, now,
                   deadline, before, written, written_by>>

Next ==
    \/ \E agentId \in {Null, Str(""), Str("agent-1")} : AnalyzeStart(agentId)
    \/ \E outcome \in {"error", "badjson"} : SubmitFails(outcome)
    \/ \E body \in Docs : SubmitAnswers(body)
    \/ PollTimeout
    \/ \E d \in Durations : PollError(d)
    \/ \E d \in Durations : \E status_data \in StatusDocs : PollStatus(d, status_data)
    \/ FetchFails
    \/ \E body \in FetchDocs : FetchAnswers(body)
    \/ \E candidate \in Candidates : analysis_result(candidate)
    \/ get_analysis_result
    \/ \E created \in BOOLEAN : \E agent_id \in AgentIds : letta_create(created, agent_id)
    \/ \E sent \in BOOLEAN : notebook_save(sent)

Spec == Init /\ [][Next]_vars

\* a step of the request being served: the handler runs on, and each of its
\* outbound calls returns or fails within its timeout
RunStep ==
    \/ \E outcome \in {"error", "badjson"} : SubmitFails(outcome)
    \/ \E body \in Docs : SubmitAnswers(body)
    \/ PollTimeout
    \/ \E d \in Durations : PollError(d)
    \/ \E d \in Durations : \E status_data \in StatusDocs : PollStatus(d, status_data)
    \/ FetchFails
    \/ \E body \in FetchDocs : FetchAnswers(body)

\* the service whose handler, once entered, runs to its return
SpecLive == Init /\ [][Next]_vars /\ WF_vars(RunStep)

(***************************************************************************)
(* The Extractor by itself: _extract_json_from_messages and                *)
(* _find_analysis_like_dict are pure functions of the document, applied    *)
(* here to documents built from every sequence of at most two of the       *)
(* messages below, to documents that nest the analysis, and to the         *)
(* documents of the service.                                               *)
(***************************************************************************)
TextBlock(s) == Dict(<< <<"type", Str("text")>>, <<"text", Str(s)>> >>)
MimeBlock(s) == Dict(<< <<"mime_type", Str("application/json")>>, <<"text", Str(s)>> >>)

ExtractMessages ==
    { Message("assistant", List(<<Block("json", PayloadA)>>)),
      Message("assistant", List(<<Block("json", Dict(<<>>))>>)),
      Message("agent", List(<<Block("json_object", Str("7"))>>)),
      Message("assistant", List(<<MimeBlock("[]")>>)),
      Message("assistant", List(<<Block("value", PayloadB), Block("json", PayloadA)>>)),
      Message("Assistant", Str(PayloadAText)),
      Message("assistant", Str("{}")),
      Message("assistant", Str("Working on it")),
      Message("user", List(<<Block("json", PayloadB)>>)),
      Message("tool", Str(PayloadAText)),
      Dict(<< <<"message_type", Str("final_answer")>>,
              <<"content", Dict(<< <<"data", PayloadFull>> >>)>> >>),
      Message("assistant", List(<<TextBlock(PayloadAText)>>)),
      Message("assistant", Text(PayloadAText)) }

\* documents that hold the analysis away from the messages
NestedDocs ==
    { Dict(<< <<"a", Dict(<< <<"b", List(<<Num(10), Dict(<< <<"c", PayloadA>> >>)>>)>> >>)>>,
              <<"z", PayloadB>> >>),
      Dict(<< <<"z", PayloadB>>,
              <<"a", Dict(<< <<"b", List(<<Dict(<< <<"c", PayloadA>> >>)>>)>> >>)>> >>),
      Dict(<< <<"analysis_summary", Text("S")>>, <<"edited_protein", Protein("P1")>>,
              <<"graph", Graph(<<>>, <<>>)>>, <<"inner", PayloadB>> >>),
      List(<<Dict(<< <<"x", Num(10)>> >>), PayloadA, PayloadB>>),
      Dict(<< <<"analysis_summary", Text("   ")>>, <<"edited_protein", Protein("P1")>>,
              <<"graph", Graph(<<>>, <<>>)>>, <<"inner", List(<<PayloadFull>>)>> >>),
      Dict(<< <<"analysis_summary", Text("S")>>, <<"edited_protein", Protein("P1")>>,
              <<"graph", Dict(<< <<"nodes", List(<<>>)>> >>)>> >>),
      Dict(<< <<"messages", Str("none")>>, <<"result", PayloadB>> >>) }

\* strings that json.loads rejects, at every position the walk parses
BadBlocks ==
    << Block("json", Str("oops")), Block("json_object", Str("{bad")), MimeBlock("oops"),
       Block("data", Str("oops")), Block("value", Str("[1,")), Block("content", Str("oops")) >>

\* msg with the rejected strings in front of its blocks, or under the keys
\* of its dict content that it does not use
PoisonMessage(msg) ==
    LET content == Get(msg, "content")
        free == SelectSeq(<<"json", "json_object", "data", "value", "content">>,
                          LAMBDA k : k \notin Keys(content))
    IN  CASE IsList(content) -> Update(msg, "content", List(BadBlocks \o content.items))
          [] IsDict(content) ->
                Update(msg, "content",
                       Dict([i \in DOMAIN free |-> <<free[i], Str("oops")>>] \o content.kv))
          [] OTHER -> msg

\* the envelope with every message poisoned and a newest assistant message
\* whose text is no JSON
Poison(msgs) ==
    Messages([i \in DOMAIN msgs |-> PoisonMessage(msgs[i])]
             \o <<Message("assistant", Str("oops"))>>)

MessageSeqs ==
    {<<>>} \cup {<<m>> : m \in ExtractMessages}
           \cup {<<m, n>> : m \in ExtractMessages, n \in ExtractMessages}

PoisonedSeqs == {<<m>> : m \in ExtractMessages}

ExtractDocs ==
    Docs \cup NestedDocs \cup {Messages(msgs) : msgs \in MessageSeqs}
         \cup {Poison(msgs) : msgs \in PoisonedSeqs}

InitExtract ==
    /\ LETTA_TOKEN = TRUE
    /\ LETTA_TEMPLATE_VERSION = TRUE
    /\ _latest_agent_id = Null
    /\ _latest_analysis_result = Null
    /\ stored_source = ""
    /\ pc = "idle"
    /\ now = 0
    /\ deadline = 0
    /\ response = NoResponse
    /\ start_payload \in ExtractDocs
    /\ query_agentId = Null
    /\ analyze_agent_id = Null
    /\ messages_data = Null
    /\ analysis_payload = Null
    /\ calls = {}
    /\ last_state = Null
    /\ waited = FALSE
    /\ poll_exc = FALSE
    /\ overran = FALSE
    /\ before = Null
    /\ written = Null
    /\ written_by = "none"

\* lines 658-660 applied to the document
Extract ==
    /\ pc = "idle"
    /\ pc' = "extracted"
    /\ analysis_payload' = ExtractCandidate(start_payload)
    /\ UNCHANGED <<env, _latest_agent_id, _latest_analysis_result, stored_source, now,
                   deadline, response, query, start_payload, messages_data, observers>>

\* _find_analysis_like_dict applied to the document
Find ==
    /\ pc = "idle"
    /\ pc' = "found"
    /\ analysis_payload' = _find_analysis_like_dict(start_payload)
    /\ UNCHANGED <<env, _latest_agent_id, _latest_analysis_result, stored_source, now,
                   deadline, response, query, start_payload, messages_data, observers>>

NextExtract == Extract \/ Find

SpecExtract == InitExtract /\ [][NextExtract]_vars

(***************************************************************************)
(* Properties.                                                             *)
(***************************************************************************)
\* a letta_analyze or POST /api/analysis/result has just answered
Answered(op) == pc = "idle" /\ response.op = op

AnalysisFields == {"analysis_summary", "edited_protein", "graph"}

\* C1: get_latest_result answers NotFound as long as no write has succeeded,
\* and after any sequence of operations with at least one successful write
\* it answers exactly the result of the most recent successful write.
C1_LastWriterWins ==
    GetResult(_latest_analysis_result) =
        IF IsNone(written)
        THEN Response("get", 404, "No analysis available", Null)
        ELSE Response("get", 200, "", written)

\* a read that follows a second successful write, which replaced another result
C1_Witness ==
    /\ response = Response("get", 200, "", written)
    /\ ~IsNone(before)
    /\ before # written

\* C2: when run_analysis or submit_external_result ends with an error of any
\* kind, the slot holds exactly what it held before the call.
C2_ErrorLeavesSlot ==
    (pc = "idle" /\ response.op \in {"analyze", "submit"} /\ response.status # 200)
        => _latest_analysis_result = before

\* a candidate failed validation while the slot held a result
C2_Witness ==
    /\ Answered("analyze")
    /\ response.status = 422
    /\ ~IsNone(analysis_payload)
    /\ ~IsNone(_latest_analysis_result)
    /\ _latest_analysis_result = before

\* the tokens of section 4.4, as the claims name them
IsSuccessToken(state) == state \in {Str("completed"), Str("finished"), Str("succeeded")}
IsFailureToken(state) == state \in {Str("failed"), Str("error")}

RunTimedOut == Response("analyze", 504, "Letta analysis timed out", Null)
RunFailed == Response("analyze", 502, "Letta reported run failure", Null)

\* some dict inside v, at any depth, has the analysis shape and validates
RECURSIVE ContainsValidShaped(_)
ContainsValidShaped(v) ==
    CASE IsDict(v) ->
            \/ AnalysisShaped(v) /\ model_validate(v).err = ""
            \/ \E i \in DOMAIN v.kv : ContainsValidShaped(v.kv[i][2])
      [] IsList(v) -> \E i \in DOMAIN v.items : ContainsValidShaped(v.items[i])
      [] OTHER -> FALSE

\* C3 as stated: once a polled run has fetched a document that contains a
\* valid shaped payload, run_analysis succeeds and the validated result is
\* in the slot.
C3_AnyValidPayloadCompletes ==
    (Answered("analyze") /\ ~IsNone(messages_data) /\ ContainsValidShaped(messages_data))
        => /\ response.status = 200
           /\ written_by = "polled"
           /\ _latest_analysis_result = written

\* the status check of a polling run answers a success token: the run goes
\* on to the message fetch, and only so; the fetch ends the request
C3_Step ==
    /\ pc = "polling" =>
          /\ IsSuccessToken(last_state') =>
                pc' = "fetching" /\ _latest_analysis_result' = _latest_analysis_result
          /\ pc' = "fetching" => IsSuccessToken(last_state') /\ now < deadline
    /\ pc = "fetching" => pc' = "idle" /\ "messages" \in calls'

\* C3: for a run whose submission returned a run id and no inline result,
\* non-terminal tokens followed by a success token before the deadline lead to
\* the message fetch; when the candidate the Extractor takes from the fetched
\* document (the first value its strategies return) is a valid payload,
\* run_analysis succeeds with it and the validated result is in the slot.
C3_PolledRunCompletes ==
    /\ [][C3_Step]_vars
    /\ [](\A validated \in {model_validate(ExtractCandidate(messages_data))} :
            (Answered("analyze") /\ ~IsNone(messages_data) /\ validated.err = "")
                => /\ response = Response("analyze", 200, "",
                                          ExtractCandidate(messages_data))
                   /\ written_by = "polled"
                   /\ _latest_analysis_result = validated.v)

\* a run that waited, saw a success token, fetched and stored
C3_Witness ==
    /\ Answered("analyze")
    /\ response.status = 200
    /\ waited
    /\ IsSuccessToken(last_state)
    /\ calls = {"submit", "status", "messages"}
    /\ written_by = "polled"
    /\ _latest_analysis_result = model_validate(ExtractCandidate(messages_data)).v

C4_Step ==
    pc = "polling" =>
        IF now < deadline
        THEN ~(Unhashable(last_state') \/ IsSuccessToken(last_state')
                 \/ IsFailureToken(last_state'))
               => /\ pc' = "polling"
                  /\ now' > now
                  /\ "messages" \notin calls'
                  /\ _latest_analysis_result' = _latest_analysis_result
        ELSE /\ pc' = "idle"
             /\ response' = RunTimedOut
             /\ calls' = calls
             /\ "messages" \notin calls'
             /\ _latest_analysis_result' = _latest_analysis_result
             /\ _latest_analysis_result' = before'

\* C4: while the status checks of a run answer non-terminal tokens the run
\* keeps polling without a message fetch and without a store, and once the
\* deadline has passed it ends with RunTimedOut, the slot as it was before
\* the call.
C4_NonTerminalUntilDeadline == [][C4_Step]_vars

\* a run that saw non-terminal tokens only and ran into the deadline
C4_Witness ==
    /\ Answered("analyze")
    /\ response = RunTimedOut
    /\ waited
    /\ ~IsFailureToken(last_state)
    /\ calls = {"submit", "status"}
    /\ IsNone(messages_data)
    /\ _latest_analysis_result = before

\* C5: a status check that answers failed or error ends the run at once with
\* RunFailed: the run makes no message fetch and no further status check.
C5_FailureTokenEndsRun ==
    IsFailureToken(last_state)
        => /\ pc = "idle"
           /\ "messages" \notin calls
           /\ response.op = "analyze" => response = RunFailed

\* a run that waited and was then told of an error
C5_Witness ==
    /\ Answered("analyze")
    /\ last_state = Str("error")
    /\ waited
    /\ response = RunFailed
    /\ calls = {"submit", "status"}

\* C6: the result in the slot, whoever wrote it, has at most 10 nodes,
\* pairwise distinct node ids, and every edge's source and target among them.
C6_SlotGraphInvariants ==
    IsNone(_latest_analysis_result) \/
    LET nodes == Get(Get(_latest_analysis_result, "graph"), "nodes").items
        edges == Get(Get(_latest_analysis_result, "graph"), "edges").items
        ids   == {Get(nodes[i], "id") : i \in DOMAIN nodes}
    IN  /\ Len(nodes) <= 10
        /\ \A i, j \in DOMAIN nodes : Get(nodes[i], "id") = Get(nodes[j], "id") => i = j
        /\ \A k \in DOMAIN edges :
              Get(edges[k], "source") \in ids /\ Get(edges[k], "target") \in ids

\* the slot holds a graph of exactly 10 nodes with an edge
C6_Witness ==
    /\ ~IsNone(_latest_analysis_result)
    /\ Len(Get(Get(_latest_analysis_result, "graph"), "nodes").items) = 10
    /\ Get(Get(_latest_analysis_result, "graph"), "edges").items # <<>>

\* C7 as stated: the value a successful run_analysis returns equals the value
\* it stored, which get_latest_result returns next.
C7_ReturnsStoredValue ==
    (Answered("analyze") /\ response.status = 200)
        => response.body = GetResult(_latest_analysis_result).body

\* C7: a successful run_analysis returns the candidate as it was extracted;
\* the value it stored, which get_latest_result returns next, is the
\* validated model of the value it returned.
C7_ReturnsCandidateStoresModel ==
    (Answered("analyze") /\ response.status = 200)
        => /\ response.body = analysis_payload
           /\ model_validate(response.body) =
                  [err |-> "", v |-> GetResult(_latest_analysis_result).body]

\* a successful run whose candidate had an unknown key and a bare-string note
C7_Witness ==
    /\ Answered("analyze")
    /\ response.status = 200
    /\ "breakthrough_summary" \in Keys(response.body)
    /\ response.body # _latest_analysis_result
    /\ model_validate(response.body).v = _latest_analysis_result

\* the tag section 4.6 gives to each writer
ProvenanceTag(by) ==
    CASE by = "inline"   -> "agent-sync"
      [] by = "polled"   -> "agent-polled"
      [] by = "external" -> "external-submit"
      [] OTHER -> ""

\* C8 as stated: get returns, along with the result, the provenance tag of
\* the most recent successful write.
C8_GetReturnsProvenance ==
    ~IsNone(written)
        => Get(GetResult(_latest_analysis_result).body, "provenance")
               = Str(ProvenanceTag(written_by))

\* C8: the slot holds the result alone.  Each write logs a source,
\* letta.analyze for a result of run_analysis (inline and polled alike) and
\* api.analysis.result for submit_external_result; get returns the result of
\* the most recent successful write and no tag.
C8_SourceIsLoggedOnly ==
    ~IsNone(written)
        => /\ stored_source = IF written_by = "external" THEN "api.analysis.result"
                                                         ELSE "letta.analyze"
           /\ GetResult(_latest_analysis_result).body = written
           /\ Keys(GetResult(_latest_analysis_result).body) = AnalysisFields

\* a read after a collaborator replaced the result of a polled run
C8_Witness ==
    /\ response = Response("get", 200, "", written)
    /\ written_by = "external"
    /\ stored_source = "api.analysis.result"
    /\ ~IsNone(before)

\* C9: a run that reported a success token and whose fetched document holds
\* no candidate ends with an error other than RunTimedOut.
C9_NoAnalysisFoundDistinct ==
    (Answered("analyze") /\ IsSuccessToken(last_state) /\ ~IsNone(messages_data)
        /\ IsNone(analysis_payload))
        => response # RunTimedOut

\* the targeted walk of lines 296-368 executes a return
WalkReturns(doc) ==
    /\ IsDict(doc)
    /\ IsList(Get(doc, "messages"))
    /\ WalkMessages(Reverse(Get(doc, "messages").items), 1).ret

\* the shape predicate holds of the response or of something inside one of
\* its qualifying messages
InlineShaped(body) ==
    /\ IsDict(body)
    /\ \/ AnalysisShaped(body)
       \/ /\ IsList(Get(body, "messages"))
          /\ \E i \in DOMAIN Get(body, "messages").items :
                LET msg == Get(body, "messages").items[i]
                IN  IsDict(msg) /\ Qualifies(msg) /\ Truthy(_find_analysis_like_dict(msg))

\* C10 as stated: a shaped submission response is answered from that shaped
\* payload, with no status check and no message fetch.
C10_InlineShapedIsUsed ==
    (Answered("analyze") /\ InlineShaped(start_payload))
        => calls = {"submit"} /\ AnalysisShaped(analysis_payload)

\* C10: when the submission response satisfies the shape predicate,
\* run_analysis makes no status check and no message fetch, run id or not;
\* its candidate is the first value the targeted walk returns, shaped or
\* not, and the first shaped dict of the response when the walk returns
\* nothing.
C10_InlineSkipsPolling ==
    (Answered("analyze") /\ InlineShaped(start_payload))
        => /\ calls = {"submit"}
           /\ ~IsNone(analysis_payload)
           /\ response.status \in {200, 422, 500}
           /\ WalkReturns(start_payload) \/ AnalysisShaped(analysis_payload)

\* a shaped response that also carries a run id was stored without polling
C10_Witness ==
    /\ Answered("analyze")
    /\ response.status = 200
    /\ written_by = "inline"
    /\ AnalysisShaped(start_payload)
    /\ IsStr(RunIdOf(start_payload))
    /\ calls = {"submit"}

\* the keys under which a response may carry its run identifier
RunIdKeys == {"run_id", "id", "message_id"}

\* a string sits under one of the keys, at top level or under data
HasRunIdentifier(body) ==
    /\ IsDict(body)
    /\ \/ \E k \in RunIdKeys : IsStr(Get(body, k))
       \/ /\ IsDict(Get(body, "data"))
          /\ \E k \in RunIdKeys : IsStr(Get(Get(body, "data"), k))

MissingRunIdentifier == Response("analyze", 502, "Letta response missing run id", Null)

\* C11: a submission response without inline result leads to polling when a
\* run identifier is under run_id, id or message_id, at top level or under
\* data, and only then; otherwise the request ends with MissingRunIdentifier
\* and has made no status check.
C11_PollsIffRunIdPresent ==
    /\ pc = "polling" => HasRunIdentifier(start_payload)
    /\ (Answered("analyze") /\ response = MissingRunIdentifier)
          => ~HasRunIdentifier(start_payload) /\ calls = {"submit"}

\* section 4.1: a string s becomes {text: s}, an object is left as it is
Coerce(v) == IF IsStr(v) THEN Text(v.s) ELSE v

\* the candidate after the coercion of the AnnotatedText fields that no
\* validator of the models coerces: analysis_summary, description, mutations
CoerceProtein(p) ==
    IF ~IsDict(p) THEN p
    ELSE LET muts == Get(p, "mutations")
         IN  Update(Update(p, "description", Coerce(Get(p, "description"))),
                    "mutations",
                    IF IsList(muts)
                    THEN List([i \in DOMAIN muts.items |-> Coerce(muts.items[i])])
                    ELSE muts)

CoerceAll(c) ==
    IF ~IsDict(c) THEN c
    ELSE Update(Update(c, "analysis_summary", Coerce(Get(c, "analysis_summary"))),
                "edited_protein", CoerceProtein(Get(c, "edited_protein")))

\* C12: a candidate that is valid once every bare string given for an
\* AnnotatedText field is read as {text: s} validates, and the stored result
\* has {text: s, source_ids: none} in that field.
C12_BareStringsCoerced ==
    (Answered("analyze") /\ ~IsNone(analysis_payload)
        /\ model_validate(CoerceAll(analysis_payload)).err = "")
        => /\ response.status = 200
           /\ _latest_analysis_result = model_validate(CoerceAll(analysis_payload)).v

\* the graph of a candidate, as the claims about the Validator read it
NodesOf(c) == ItemsOf(Get(Get(c, "graph"), "nodes"))
EdgesOf(c) == ItemsOf(Get(Get(c, "graph"), "edges"))
IdsOf(c) == {Get(NodesOf(c)[i], "id") : i \in DOMAIN NodesOf(c)}
UniqueIds(c) == \A i, j \in DOMAIN NodesOf(c) :
                    Get(NodesOf(c)[i], "id") = Get(NodesOf(c)[j], "id") => i = j
Known(c, e) == Get(e, "source") \in IdsOf(c) /\ Get(e, "target") \in IdsOf(c)

\* the source-to-target pairs of the edges with an unknown endpoint, in edge order
Offending(c) ==
    LET bad == SelectSeq(EdgesOf(c), LAMBDA e : ~Known(c, e))
    IN  [i \in DOMAIN bad |-> <<Get(bad[i], "source").s, Get(bad[i], "target").s>>]

\* every field of the candidate validates, the graph as a whole apart
FieldsValid(c) ==
    /\ IsDict(c)
    /\ TextWithSourcesOk(Get(c, "analysis_summary"))
    /\ EditedProteinOk(Get(c, "edited_protein"))
    /\ model_validate(c).err = "" \/ GraphValueError(c) # NoValueError

\* run_analysis has rejected its candidate with this ValueError of the graph
Rejected(msg, invalid) ==
    /\ response = Response("analyze", 422, "Analysis failed validation",
                           ValueError(msg, invalid))
    /\ _latest_analysis_result = before

\* a candidate went through the Validator of run_analysis
Validated == Answered("analyze") /\ ~IsNone(analysis_payload)

\* C13: a graph of 10 nodes with unique ids and known edge endpoints
\* validates; a graph of 11 or more nodes is rejected, the reason being the
\* count violation.
C13_NodeLimitIsTen ==
    (Validated /\ FieldsValid(analysis_payload))
        => /\ (Len(NodesOf(analysis_payload)) = 10 /\ UniqueIds(analysis_payload)
                 /\ Offending(analysis_payload) = <<>>)
                => /\ response.status = 200
                   /\ Len(NodesOf(_latest_analysis_result)) = 10
           /\ Len(NodesOf(analysis_payload)) >= 11
                => Rejected("Graph cannot contain more than 10 nodes", <<>>)

\* a graph of 11 nodes was rejected while the slot held one of 10 nodes
C13_Witness ==
    /\ Validated
    /\ FieldsValid(analysis_payload)
    /\ Len(NodesOf(analysis_payload)) = 11
    /\ Rejected("Graph cannot contain more than 10 nodes", <<>>)
    /\ ~IsNone(_latest_analysis_result)
    /\ Len(NodesOf(_latest_analysis_result)) = 10

\* an id is named by a ValueError: the texts of lines 94 and 96 are fixed,
\* the ids a message can show are those of the edges joined at line 105
Names(err, id) ==
    \E i \in DOMAIN err.invalid : id \in {err.invalid[i][1], err.invalid[i][2]}

\* C14 as stated: a graph in which two nodes share an id is rejected with a
\* reason that names the shared id.
C14_DuplicateIdNamed ==
    (Validated /\ FieldsValid(analysis_payload) /\ ~UniqueIds(analysis_payload))
        => /\ response.status = 422
           /\ \E i, j \in DOMAIN NodesOf(analysis_payload) :
                 /\ i # j
                 /\ Get(NodesOf(analysis_payload)[i], "id")
                        = Get(NodesOf(analysis_payload)[j], "id")
                 /\ Names(response.body, Get(NodesOf(analysis_payload)[i], "id").s)

\* C14: a graph of at most 10 nodes in which two nodes share an id is
\* rejected with the reason "Graph nodes must have unique ids", which names
\* no id.
C14_DuplicateIdRejected ==
    (Validated /\ FieldsValid(analysis_payload) /\ ~UniqueIds(analysis_payload)
        /\ Len(NodesOf(analysis_payload)) <= 10)
        => Rejected("Graph nodes must have unique ids", <<>>)

\* a candidate with two nodes P1 was rejected
C14_Witness ==
    /\ Validated
    /\ FieldsValid(analysis_payload)
    /\ ~UniqueIds(analysis_payload)
    /\ Rejected("Graph nodes must have unique ids", <<>>)

\* C15 as stated: a graph with an edge whose source or target is no node id
\* is rejected, the rejection listing every such edge and no other.
C15_DanglingEdgesListed ==
    (Validated /\ FieldsValid(analysis_payload) /\ Offending(analysis_payload) # <<>>)
        => /\ response.status = 422
           /\ response.body.invalid = Offending(analysis_payload)

\* C15: a graph of at most 10 nodes with pairwise distinct ids and an edge
\* whose source or target is no node id is rejected, the rejection listing as
\* source-to-target pairs every such edge, in edge order, and no other edge.
C15_DanglingEdgesListedAfterNodeChecks ==
    (Validated /\ FieldsValid(analysis_payload) /\ Offending(analysis_payload) # <<>>
        /\ Len(NodesOf(analysis_payload)) <= 10 /\ UniqueIds(analysis_payload))
        => Rejected("Edges reference unknown nodes", Offending(analysis_payload))

\* two of three edges were listed, the edge between them was not
C15_Witness ==
    /\ Validated
    /\ FieldsValid(analysis_payload)
    /\ Len(EdgesOf(analysis_payload)) = 3
    /\ Rejected("Edges reference unknown nodes", << <<"P1", "ZZZ">>, <<"ZZZ", "P2">> >>)

\* the candidate with the confidence taken out of its edited protein
WithoutConfidence(c) ==
    Update(c, "edited_protein", Update(Get(c, "edited_protein"), "confidence", Null))

ConfidenceOf(c) == Get(Get(c, "edited_protein"), "confidence")

\* C16: a candidate that is valid apart from its confidence validates when
\* the confidence is absent or within [0, 1], bounds included, and is rejected
\* as a whole otherwise.
C16_ConfidenceInClosedUnitInterval ==
    (Validated /\ IsDict(analysis_payload) /\ IsDict(Get(analysis_payload, "edited_protein"))
        /\ model_validate(WithoutConfidence(analysis_payload)).err = "")
        => IF \/ IsNone(ConfidenceOf(analysis_payload))
              \/ /\ ConfidenceOf(analysis_payload).t = "num"
                 /\ ConfidenceOf(analysis_payload).n >= 0
                 /\ ConfidenceOf(analysis_payload).n <= 10
           THEN /\ response.status = 200
                /\ ConfidenceOf(_latest_analysis_result) = ConfidenceOf(analysis_payload)
           ELSE /\ response.status = 422
                /\ _latest_analysis_result = before

\* a confidence of -0.1 was rejected while the slot held a confidence of 1.0
C16_Witness ==
    /\ Validated
    /\ response.status = 422
    /\ IsDict(analysis_payload)
    /\ IsDict(Get(analysis_payload, "edited_protein"))
    /\ ConfidenceOf(analysis_payload) = Num(0 - 1)
    /\ ~IsNone(_latest_analysis_result)
    /\ ConfidenceOf(_latest_analysis_result) = Num(10)

\* the values given for the text fields of the nodes of a candidate
NodeTexts(c) ==
    {Get(NodesOf(c)[i], NodeTextFields[f]) :
        i \in DOMAIN NodesOf(c), f \in DOMAIN NodeTextFields}

\* the candidate has a graph whose nodes are objects
HasNodes(c) ==
    /\ IsDict(c)
    /\ IsDict(Get(c, "graph"))
    /\ \A i \in DOMAIN NodesOf(c) : IsDict(NodesOf(c)[i])

\* a valid input of the coercion: a string, or an object {text, source_ids}
ValidText(x) ==
    \/ IsStr(x)
    \/ IsDict(x) /\ IsStr(Get(x, "text")) /\ IsOptStrList(Get(x, "source_ids"))

\* C17: for every valid input x, a string or an object {text, source_ids},
\* the coercion accepts coerce(x) and gives coerce(x) again.
C17_CoercionIdempotent ==
    (Validated /\ HasNodes(analysis_payload))
        => \A x \in NodeTexts(analysis_payload) :
              ValidText(x) => /\ CoerceText(x).ok
                              /\ CoerceText(CoerceText(x).v) = CoerceText(x)

\* a stored node whose texts came as a bare string, as an object with sources
\* and an unknown key, and as an object without sources
C17_Witness ==
    /\ Validated
    /\ response.status = 200
    /\ \E i \in DOMAIN NodesOf(analysis_payload) :
          /\ IsStr(Get(NodesOf(analysis_payload)[i], "notes"))
          /\ Get(NodesOf(_latest_analysis_result)[i], "notes")
                = CoerceText(Get(NodesOf(analysis_payload)[i], "notes")).v
          /\ IsList(Get(Get(NodesOf(_latest_analysis_result)[i], "relationship_to_edited"),
                        "source_ids"))
          /\ IsNone(Get(Get(NodesOf(_latest_analysis_result)[i], "role_summary"),
                        "source_ids"))

\* a complete validated result: the three fields, and validating it changes
\* nothing
Complete(v) ==
    /\ IsDict(v)
    /\ Keys(v) = AnalysisFields
    /\ model_validate(v) = [err |-> "", v |-> v]

\* a step replaces the slot by the complete result just validated or leaves
\* it; a read answers the slot as a whole and does not change it
C18_Step ==
    /\ _latest_analysis_result' # _latest_analysis_result
          => /\ Complete(_latest_analysis_result')
             /\ _latest_analysis_result' = written'
    /\ response'.op = "get"
          => /\ _latest_analysis_result' = _latest_analysis_result
             /\ response' = GetResult(_latest_analysis_result)
             /\ pc = "idle"

\* C18: a read among the writes answers NotFound before the first write and
\* otherwise one complete validated result, the one of the latest write that
\* finished; it never answers a mixture of two results.
C18_ReadsSeeWholeResults ==
    /\ [][C18_Step]_vars
    /\ [](response.op = "get" =>
             IF IsNone(written)
             THEN response.status = 404
             ELSE response.body = written /\ Complete(response.body))

\* a read after a polled run replaced an earlier result
C18_Witness ==
    /\ response.op = "get"
    /\ response.status = 200
    /\ Complete(response.body)
    /\ written_by = "polled"
    /\ ~IsNone(before)
    /\ response.body # before

\* C19: whenever run_analysis hands a candidate to the Validator and the
\* candidate does not validate, the request ends with ValidationError (422),
\* whatever the candidate is: a dict, an empty dict, a list or a number.
C19_InvalidCandidateIsValidationError ==
    (Validated /\ model_validate(analysis_payload).err # "")
        => response.status = 422

\* a status check of the run raises while the loop is entered
C20_Step ==
    (pc = "polling" /\ now < deadline /\ poll_exc')
        => /\ pc' = "polling"
           /\ now' > now
           /\ deadline' = deadline
           /\ response' = response
           /\ "messages" \notin calls'
           /\ _latest_analysis_result' = _latest_analysis_result

\* C20: a status check that fails never ends the run, which stays polling and
\* checks again however many checks failed before; a run whose latest status
\* check failed ends by the deadline only.
C20_StatusFailureNeverEndsRun ==
    /\ [][C20_Step]_vars
    /\ []((Answered("analyze") /\ poll_exc) => response = RunTimedOut)

\* a run all of whose status checks failed, up to the deadline
C20_Witness ==
    /\ Answered("analyze")
    /\ response = RunTimedOut
    /\ poll_exc
    /\ ~waited
    /\ IsNone(last_state)
    /\ calls = {"submit", "status"}

FetchFailed == Response("analyze", 502, "Failed to fetch analysis", Null)

\* the message fetch of the run raises: nothing was fetched
FetchRaises == pc = "fetching" /\ "messages" \in calls' /\ IsNone(messages_data')

\* C21: a failure of the message fetch that follows a success token is
\* absorbed: the run stays polling and retries until the deadline, and no
\* error reaches the caller before the deadline.
C21_FetchFailureAbsorbed ==
    [][FetchRaises => pc' = "polling" /\ response' = response]_vars

\* C21 as the code has it: a failure of the message fetch that follows a
\* success token ends the run at once with "Failed to fetch analysis" (502),
\* without a retry and with the slot as it was before the call.
C21_FetchFailureEndsRun ==
    /\ [][FetchRaises => /\ pc' = "idle"
                         /\ response' = FetchFailed
                         /\ _latest_analysis_result' = _latest_analysis_result]_vars
    /\ [](response = FetchFailed =>
             /\ IsSuccessToken(last_state)
             /\ _latest_analysis_result = before)

\* a run that was told of success and whose one message fetch failed
C21_Witness ==
    /\ Answered("analyze")
    /\ response = FetchFailed
    /\ IsSuccessToken(last_state)
    /\ calls = {"submit", "status", "messages"}
    /\ IsNone(messages_data)

\* C22: once the clock has passed the deadline before a terminal state was
\* reached the run ends with RunTimedOut whatever status is observed
\* afterwards: a success token answered after the deadline does not complete
\* the run.
C22_DeadlineBoundsPolling ==
    (Answered("analyze") /\ overran) => response = RunTimedOut

AgentMissing == Response("analyze", 400, "Agent not configured or missing", Null)

\* the answer of a successful creation of agent a
Created(a) == Response("create", 200, "letta.create.created", a)

\* the created agent changes with a successful creation only, and then to the
\* agent just created; a submission begins only when the request started
C23_Step ==
    /\ _latest_agent_id' # _latest_agent_id => response' = Created(_latest_agent_id')
    /\ (response'.op = "create" /\ response'.detail = "letta.create.created")
          => _latest_agent_id' = response'.body
    /\ pc' = "submitting" => (pc = "idle" \/ pc = "submitting")

\* C23: run_analysis addresses the agent of the agentId parameter when one
\* is given and otherwise the agent most recently created successfully; with
\* no credential, or with neither an agentId nor a created agent, it fails
\* before any upstream call and leaves the slot unchanged.
C23_AgentAddressed ==
    /\ [][C23_Step]_vars
    /\ [](pc = "submitting" =>
             /\ LETTA_TOKEN
             /\ Truthy(analyze_agent_id)
             /\ analyze_agent_id = IF Truthy(query_agentId) THEN query_agentId
                                   ELSE _latest_agent_id)
    /\ []((Answered("analyze") /\ calls = {} /\ response.status # 0) =>
             /\ response = AgentMissing
             /\ _latest_analysis_result = before
             /\ ~LETTA_TOKEN \/ (~Truthy(query_agentId) /\ IsNone(_latest_agent_id)))
    /\ [](response = AgentMissing => calls = {})

\* a submission to the agent of the parameter although another was created
C23_Witness ==
    /\ pc = "submitting"
    /\ calls = {"submit"}
    /\ _latest_agent_id = Str("agent-2")
    /\ query_agentId = Str("agent-1")
    /\ analyze_agent_id = Str("agent-1")

\* a status check of the run is answered while the loop is entered
C24_Step ==
    (pc = "polling" /\ now < deadline /\ ~poll_exc')
        => CASE IsSuccessToken(last_state') -> pc' = "fetching"
             [] IsFailureToken(last_state') -> pc' = "idle" /\ response' = RunFailed
             [] OTHER -> pc' = "polling" /\ response' = response

\* C24: the status is classified by its lower-cased string: a case variant
\* of completed, finished or succeeded is a success token, one of failed or
\* error a failure token, and every other value (unknown, empty, missing or
\* not a string) leaves the run polling.
C24_StatusClassification == [][C24_Step]_vars

\* the messages of the document from the newest to the oldest
NewestFirst(doc) ==
    IF IsDict(doc) /\ IsList(Get(doc, "messages"))
    THEN Reverse(Get(doc, "messages").items)
    ELSE <<>>

\* the role is assistant, agent or model, or the message type contains
\* assistant, final or output
RoleOrTypeQualifies(msg) ==
    /\ IsDict(msg)
    /\ \/ IsStr(Get(msg, "role")) /\ Lower(Get(msg, "role").s) \in {"assistant", "agent", "model"}
       \/ /\ IsStr(Get(msg, "message_type"))
          /\ \E word \in {"assistant", "final", "output"} :
                Contains(Lower(Get(msg, "message_type").s), word)

\* what the content of a message yields, whoever sent it
ContentCandidate(msg) ==
    LET content == Get(msg, "content")
    IN  CASE IsList(content) -> WalkBlocks(content.items, 1)
          [] IsDict(content) -> WalkContentDict(content)
          [] IsStr(content)  -> WalkContentStr(content)
          [] OTHER -> NoReturn

\* the positions, newest first, of the qualifying messages with a candidate
Carrying(doc) ==
    {i \in DOMAIN NewestFirst(doc) :
        /\ RoleOrTypeQualifies(NewestFirst(doc)[i])
        /\ ContentCandidate(NewestFirst(doc)[i]).ret}

NewestCarrying(doc) ==
    NewestFirst(doc)[CHOOSE i \in Carrying(doc) : \A j \in Carrying(doc) : i <= j]

\* the Extractor has been applied to a message envelope
Walked == pc = "extracted" /\ IsDict(start_payload) /\ IsList(Get(start_payload, "messages"))

\* the walk takes its candidate from a message with text for content
TextParsed(doc) == Carrying(doc) # {} /\ IsStr(Get(NewestCarrying(doc), "content"))

\* C25: the strategies are tried in the order targeted walk, generic
\* recursive search, parse of the assistant text: an object parsed from the
\* text of a message is returned only when no dict anywhere in the document
\* has the analysis shape.
C25_TextParseIsLast ==
    (Walked /\ TextParsed(start_payload)
        /\ analysis_payload = ContentCandidate(NewestCarrying(start_payload)).v)
        => IsNone(_find_analysis_like_dict(start_payload))

\* C25 as the code has it: the parse of a message's text belongs to the
\* walk, which goes from the newest message to the oldest, and the generic
\* search comes after the walk; the object parsed from the text of the newest
\* message with a candidate is returned whatever else the document holds,
\* and the result of the generic search only when the walk returns nothing.
C25_TextParseWithinWalk ==
    Walked =>
        /\ TextParsed(start_payload)
              => analysis_payload = JsonLoads(Get(NewestCarrying(start_payload), "content").s).v
        /\ Carrying(start_payload) = {}
              => analysis_payload = _find_analysis_like_dict(start_payload)

\* an object parsed from text is returned although a dict of the document
\* has the analysis shape
C25_Witness ==
    /\ Walked
    /\ TextParsed(start_payload)
    /\ ~IsNone(_find_analysis_like_dict(start_payload))
    /\ analysis_payload = Dict(<<>>)

\* C26: a candidate taken from the inline check, from the walk (the values
\* under json and json_object and the text of JSON-MIME blocks included) or
\* from the generic search is a dict of the analysis shape; only the parse
\* of a message's text may return an object that was not tested.
C26_CandidatesAreShaped ==
    (pc = "extracted" /\ ~IsNone(analysis_payload) /\ ~TextParsed(start_payload))
        => AnalysisShaped(analysis_payload)

\* C27: the walk goes from the newest message to the oldest and looks at
\* qualifying messages only: the candidate of the newest qualifying message
\* that has one is returned, and without such a message the walk yields
\* nothing, so that the generic search decides.
C27_NewestQualifyingWins ==
    Walked =>
        \E walked \in {IF Carrying(start_payload) = {} THEN Null
                        ELSE ContentCandidate(NewestCarrying(start_payload)).v} :
            analysis_payload = IF IsNone(walked)
                               THEN _find_analysis_like_dict(start_payload)
                               ELSE walked

\* two qualifying messages with different candidates: the one of the newer
\* message is returned
C27_Witness ==
    /\ Walked
    /\ Cardinality(Carrying(start_payload)) = 2
    /\ \A i \in Carrying(start_payload) :
          ContentCandidate(NewestFirst(start_payload)[i]).v = analysis_payload
             <=> NewestFirst(start_payload)[i] = NewestCarrying(start_payload)
    /\ ~IsNone(analysis_payload)

RECURSIVE DictsPreorder(_), DictsOfSeq(_, _)

DictsOfSeq(vals, i) ==
    IF i > Len(vals) THEN <<>> ELSE DictsPreorder(vals[i]) \o DictsOfSeq(vals, i + 1)

\* every dict of the document in depth-first pre-order: a dict before its
\* values, values and list items in document order
DictsPreorder(v) ==
    CASE IsDict(v) -> <<v>> \o DictsOfSeq([i \in 1..Len(v.kv) |-> v.kv[i][2]], 1)
      [] IsList(v) -> DictsOfSeq(v.items, 1)
      [] OTHER -> <<>>

ShapedPreorder(doc) == SelectSeq(DictsPreorder(doc), AnalysisShaped)

\* C28: the generic search returns a dict if and only if some dict of the
\* document, at any depth, under any key, inside lists and in messages of
\* any role, has the analysis shape, and it returns the first such dict in
\* depth-first pre-order.
C28_FirstShapedInPreorder ==
    pc = "found" =>
        \E shaped \in {ShapedPreorder(start_payload)} :
            analysis_payload = IF shaped = <<>> THEN Null ELSE shaped[1]

\* the first of several shaped dicts is found three levels down, inside a
\* list, ahead of a shaped sibling
C28_Witness ==
    /\ pc = "found"
    /\ Len(ShapedPreorder(start_payload)) >= 2
    /\ analysis_payload = PayloadA
    /\ ShapedPreorder(start_payload)[2] = PayloadB
    /\ IsDict(start_payload)
    /\ IsDict(Get(start_payload, "a"))
    /\ IsList(Get(Get(start_payload, "a"), "b"))

\* the newest assistant message is a list of blocks or a dict, and its
\* normalized text is a JSON object
NormalizedObject(doc) ==
    /\ NewestFirst(doc) # <<>>
    /\ AssistantRole(NewestFirst(doc)[1])
    /\ \/ IsList(Get(NewestFirst(doc)[1], "content"))
       \/ IsDict(Get(NewestFirst(doc)[1], "content"))
    /\ IsStr(_extract_assistant_text(doc))
    /\ JsonLoads(_extract_assistant_text(doc).s).ok
    /\ IsDict(JsonLoads(_extract_assistant_text(doc).s).v)

\* C29: when the content of the newest assistant message is a list of text
\* blocks, or a dict with a text key, whose normalized text is a JSON object,
\* and neither the walk nor the generic search has found a candidate, the
\* Extractor returns the parsed object, as it does for string content.
C29_NormalizedTextIsParsed ==
    (Walked /\ NormalizedObject(start_payload) /\ Carrying(start_payload) = {}
        /\ IsNone(_find_analysis_like_dict(start_payload)))
        => analysis_payload = JsonLoads(_extract_assistant_text(start_payload).s).v

\* C30: a string that does not parse, under json or json_object, in a
\* JSON-MIME block, under data, value or content, or as the content of a
\* message, never ends the extraction: the search goes on, and the
\* candidate of the document without these strings is returned.
C30_ParseFailuresSwallowed ==
    pc = "extracted" =>
        \A msgs \in PoisonedSeqs :
            start_payload = Poison(msgs)
                => analysis_payload = ExtractCandidate(Messages(msgs))

\* a candidate found behind six blocks and a newer message that do not parse
C30_Witness ==
    /\ pc = "extracted"
    /\ \E msgs \in PoisonedSeqs :
          /\ start_payload = Poison(msgs)
          /\ IsList(Get(msgs[1], "content"))
    /\ analysis_payload = PayloadB

\* a value an AnnotatedText field does not take: neither a string nor an
\* object with a string text, null counting for a required field only
BadAnnotated(v, optional) ==
    ~(\/ IsStr(v)
      \/ IsDict(v) /\ IsStr(Get(v, "text"))
      \/ optional /\ IsNone(v))

\* the candidate holds such a value in one of its AnnotatedText fields
HasBadText(c) ==
    /\ IsDict(c)
    /\ \/ BadAnnotated(Get(c, "analysis_summary"), FALSE)
       \/ /\ IsDict(Get(c, "edited_protein"))
          /\ LET p == Get(c, "edited_protein")
             IN  \/ BadAnnotated(Get(p, "description"), TRUE)
                 \/ \E i \in DOMAIN ItemsOf(Get(p, "mutations")) :
                       BadAnnotated(ItemsOf(Get(p, "mutations"))[i], FALSE)
       \/ /\ IsDict(Get(c, "graph"))
          /\ \E i \in DOMAIN ItemsOf(Get(Get(c, "graph"), "nodes")) :
                LET n == ItemsOf(Get(Get(c, "graph"), "nodes"))[i]
                IN  IsDict(n) /\ \E f \in DOMAIN NodeTextFields :
                                    BadAnnotated(Get(n, NodeTextFields[f]), TRUE)

\* a posted candidate with such a value is answered with the validation error
C31_Step ==
    \A candidate \in Candidates :
        (HasBadText(candidate) /\ analysis_result(candidate))
            => /\ response'.status = 422
               /\ _latest_analysis_result' = _latest_analysis_result

\* C31: a candidate with a number, a list or a misplaced null in an
\* AnnotatedText field fails validation as a whole: the caller, of
\* run_analysis or of submit_external_result, is answered with the
\* validation error (422) and nothing is stored.
C31_BadTextIsValidationError ==
    /\ [][C31_Step]_vars
    /\ []((Validated /\ HasBadText(analysis_payload))
            => (response.status = 422 /\ _latest_analysis_result = before))

\* C32: run_analysis requests are not mutually excluded: while one run is
\* polling, the service can take a second run_analysis request, which
\* submits and polls on its own.
C32_SecondRunMayStart ==
    pc = "polling"
        => ENABLED (\E agentId \in {Null, Str(""), Str("agent-1")} : AnalyzeStart(agentId))

\* every request that is being served is answered
C33_RunEnds == (pc # "idle") ~> Answered("analyze")

\* the ways out of the poll loop
C33_Step ==
    /\ (pc = "polling" /\ pc' # "polling")
          => \/ pc' = "fetching" /\ IsSuccessToken(last_state')
             \/ pc' = "idle" /\ response' = RunFailed /\ IsFailureToken(last_state')
             \/ pc' = "idle" /\ response' = RunTimedOut /\ now >= deadline
    /\ (pc = "fetching" /\ pc' # "fetching")
          => pc' = "idle" /\ "messages" \in calls'

\* C33: every run_analysis call ends with a result or an error, its outbound
\* calls returning or failing within their timeouts: the poll loop does not
\* run forever, and it is left only on a success token (then by the outcome
\* of the message fetch), on a failure token or at the deadline.
C33_RunEndsByTokenFetchOrDeadline ==
    /\ C33_RunEnds
    /\ [][C33_Step]_vars

\* the message fetch of a run
Fetches == "messages" \in calls' /\ "messages" \notin calls

\* a status check of a run
ChecksStatus == pc = "polling" /\ "status" \in calls' /\ now < deadline

C34_Step ==
    /\ Fetches => /\ pc = "fetching"
                  /\ IsSuccessToken(last_state) /\ ~poll_exc
                  /\ pc' = "idle"
    /\ (pc' = "fetching" /\ pc # "fetching")
          => ChecksStatus /\ IsSuccessToken(last_state') /\ "messages" \notin calls
    /\ ChecksStatus => "messages" \notin calls
    /\ pc = "fetching" => Fetches

\* C34: a run fetches the message history at most once, and only as the step
\* that follows a status check which returned a success token; the fetch ends
\* the run, with or without a candidate, so that no status check follows it.
C34_OneFetchAfterSuccess ==
    /\ [][C34_Step]_vars
    /\ []("messages" \in calls => Answered("analyze") /\ IsSuccessToken(last_state))

\* a run whose message fetch answered messages without a candidate
C34_Witness ==
    /\ Answered("analyze")
    /\ "messages" \in calls
    /\ ~IsNone(messages_data)
    /\ IsNone(analysis_payload)
    /\ response = RunTimedOut

\* the request answered by the step is an agent creation or a notebook save
CreatesOrSaves == response'.op \in {"create", "save"}

C35_Step ==
    /\ CreatesOrSaves => /\ _latest_analysis_result' = _latest_analysis_result
                         /\ stored_source' = stored_source
    /\ ~IsNone(_latest_analysis_result) => ~IsNone(_latest_analysis_result')
    /\ (response'.op = "get" /\ ~IsNone(_latest_analysis_result))
          => response' = Response("get", 200, "", _latest_analysis_result)

\* C35: agent creation and notebook-save leave the latest-result slot as it
\* is; a stored result stays readable: get_latest_result returns it after a
\* new agent was created, and never answers NotFound again.
C35_CreateAndSaveKeepResult == [][C35_Step]_vars

\* an agent was created while the slot held the result of a polled run
C35_Witness ==
    /\ Answered("create")
    /\ \E a \in AgentIds : response = Created(Str(a))
    /\ written_by = "polled"
    /\ ~IsNone(_latest_analysis_result)
    /\ _latest_analysis_result = written

\* the keys the models declare
TextKeys == {"text", "source_ids"}
NodeKeys == {"id", "label", "type", "isEdited", "notes", "relationship_to_edited",
             "role_summary", "source_ids"}
EdgeKeys == {"source", "target", "interaction", "mechanism"}
GraphKeys == {"nodes", "edges"}
ProteinKeys == {"id", "label", "description", "mutations", "confidence"}
RootKeys == {"analysis_summary", "edited_protein", "graph"}

\* d without the keys that are not in keys
Restrict(d, keys) == Dict(SelectSeq(d.kv, LAMBDA p : p[1] \in keys))

\* the value under k replaced by F of it, when d has the key
Under(d, k, F(_)) == Update(d, k, F(Get(d, k)))

Each(v, F(_)) == IF IsList(v) THEN List([i \in DOMAIN v.items |-> F(v.items[i])]) ELSE v

ModelledText(v) == IF IsDict(v) THEN Restrict(v, TextKeys) ELSE v

ModelledNode(n) ==
    IF IsDict(n)
    THEN Under(Under(Under(Restrict(n, NodeKeys), "notes", ModelledText),
                     "relationship_to_edited", ModelledText),
               "role_summary", ModelledText)
    ELSE n

ModelledEdge(e) == IF IsDict(e) THEN Restrict(e, EdgeKeys) ELSE e

ModelledNodes(v) == Each(v, ModelledNode)
ModelledEdges(v) == Each(v, ModelledEdge)
ModelledTexts(v) == Each(v, ModelledText)

ModelledGraph(g) ==
    IF IsDict(g)
    THEN Under(Under(Restrict(g, GraphKeys), "nodes", ModelledNodes), "edges", ModelledEdges)
    ELSE g

ModelledProtein(p) ==
    IF IsDict(p)
    THEN Under(Under(Restrict(p, ProteinKeys), "description", ModelledText),
               "mutations", ModelledTexts)
    ELSE p

\* the candidate without its unknown keys, at every level
Modelled(c) ==
    IF IsDict(c)
    THEN Under(Under(Under(Restrict(c, RootKeys), "analysis_summary", ModelledText),
                     "edited_protein", ModelledProtein),
               "graph", ModelledGraph)
    ELSE c

\* a result that has the declared fields and no other key, at every level
IsModelText(v) == IsDict(v) /\ Keys(v) = TextKeys
IsOptModelText(v) == IsNone(v) \/ IsModelText(v)

OnlyModelled(r) ==
    /\ IsDict(r) /\ Keys(r) = RootKeys
    /\ IsModelText(Get(r, "analysis_summary"))
    /\ LET p == Get(r, "edited_protein")
       IN  /\ IsDict(p) /\ Keys(p) = ProteinKeys
           /\ IsOptModelText(Get(p, "description"))
           /\ IsList(Get(p, "mutations"))
           /\ \A i \in DOMAIN Get(p, "mutations").items :
                 IsModelText(Get(p, "mutations").items[i])
    /\ LET g == Get(r, "graph")
       IN  /\ IsDict(g) /\ Keys(g) = GraphKeys
           /\ IsList(Get(g, "nodes")) /\ IsList(Get(g, "edges"))
           /\ \A i \in DOMAIN Get(g, "nodes").items :
                 LET n == Get(g, "nodes").items[i]
                 IN  /\ IsDict(n) /\ Keys(n) = NodeKeys
                     /\ \A f \in DOMAIN NodeTextFields :
                           IsOptModelText(Get(n, NodeTextFields[f]))
           /\ \A i \in DOMAIN Get(g, "edges").items :
                 LET e == Get(g, "edges").items[i]
                 IN  IsDict(e) /\ Keys(e) = EdgeKeys

\* what the Validator makes of each candidate without its unknown keys
ModelledVerdict == [c \in Candidates |-> model_validate(Modelled(c))]

\* what the Validator makes of each candidate as it is posted
Verdict == [c \in Candidates |-> model_validate(c)]

\* the answer and the slot after the step are those of the verdict
Outcome(verdict) ==
    /\ (response'.status = 200) <=> (verdict.err = "")
    /\ response'.status = 200 => _latest_analysis_result' = verdict.v

\* a posted candidate is treated as the candidate without its unknown keys
C36_Step ==
    response'.op = "submit" =>
        \A candidate \in Candidates :
            (Outcome(Verdict[candidate]) /\ analysis_result(candidate))
                => /\ Outcome(ModelledVerdict[candidate])
                   /\ response'.status = 200 => OnlyModelled(_latest_analysis_result')

\* C36: keys the models do not declare, at any level of a candidate, never
\* cause a rejection and are not stored: a candidate like the mock payload,
\* with its additional keys and its node notes as bare strings, is accepted
\* by submit_external_result, and get_latest_result answers the declared
\* fields only.
C36_UnknownKeysIgnored ==
    /\ [][C36_Step]_vars
    /\ []((response.op = "get" /\ response.status = 200) => OnlyModelled(response.body))

\* the mock payload was posted and accepted: the result holds none of its
\* additional keys
C36_Witness ==
    /\ Answered("submit")
    /\ response.status = 200
    /\ written_by = "external"
    /\ _latest_analysis_result = model_dump(PayloadMock)
    /\ _latest_analysis_result # Modelled(PayloadMock)
    /\ Keys(PayloadMock) # RootKeys
    /\ OnlyModelled(_latest_analysis_result)

====
